---- MODULE Spec2Model ----
(***************************************************************************)
(* State-machine model of speculate's graph engine                         *)
(* (src/speculate/graph_engine.py): the TaskGraph store, its mutating      *)
(* operations, its queries, its JSON form and the identifier policy        *)
(* validate_task_id; and of the add command of the CLI                     *)
(* (src/speculate/cli.py) on the graph file.                               *)
(*                                                                         *)
(* Strings that the code inspects character by character (task ids) are    *)
(* sequences of ASCII code points; all other strings are opaque values.    *)
(* A Python dict (insertion ordered) is a sequence of [key, task] entries  *)
(* with pairwise distinct keys.  None is the empty sequence <<>>, and an   *)
(* Optional value x is <<x>>.                                              *)
(***************************************************************************)
EXTENDS Integers, Sequences, FiniteSets, TLC

VARIABLES
    nodes,      \* TaskGraph.nodes : dict id -> Task, in insertion order
    edges,      \* TaskGraph.edges : list of Relationship
    last,       \* the last call made on the graph: operation, arguments, outcome
    pre_nodes,  \* TaskGraph.nodes as it was when the last call started
    pre_edges,  \* TaskGraph.edges as it was when the last call started
    arg,        \* validate_task_id: the string it is applied to
    ret,        \* validate_task_id: the tuple it returned (<<>> before the call)
    file,       \* .speculate/graph.json: None while absent, else <<its document>>
    pre_file,   \* the file as it was when the last command started
    fs,         \* the directory .speculate at the level of save and load:
                \* the files' contents and which file each path names
    procs       \* the processes that are inside load or save

vars == <<nodes, edges, last, pre_nodes, pre_edges, arg, ret, file, pre_file,
          fs, procs>>

(***************************************************************************)
(* Bounds of the model.                                                    *)
(***************************************************************************)
MaxEdges == 2       \* add_relationship does not grow the edge list beyond this
MaxLen == 3         \* validate_task_id: every string up to this length ...
MaxKebabLen == 9    \* ... and every string of letters and hyphens up to this one

(***************************************************************************)
(* Characters (ASCII code points) and the str methods the code uses.       *)
(***************************************************************************)
LF == 10
SPACE == 32
HYPHEN == 45

IsUpperChar(c) == c \in 65..90
IsAlnumChar(c) == c \in 97..122 \/ c \in 48..57     \* the class [a-z0-9]

\* str.lower() on ASCII text
lower(s) == [i \in 1..Len(s) |-> IF IsUpperChar(s[i]) THEN s[i] + 32 ELSE s[i]]

\* c in s
Contains(s, c) == \E i \in 1..Len(s) : s[i] = c

\* s.split(sep): the list of the maximal pieces between separators
RECURSIVE split(_, _)
split(s, sep) ==
    IF ~Contains(s, sep) THEN <<s>>
    ELSE LET i == CHOOSE k \in 1..Len(s) :
                      s[k] = sep /\ \A j \in 1..(k - 1) : s[j] # sep
         IN <<SubSeq(s, 1, i - 1)>> \o split(SubSeq(s, i + 1, Len(s)), sep)

(***************************************************************************)
(* re.match(r'^[a-z0-9]+(-[a-z0-9]+)*$', s), run as the automaton of the   *)
(* pattern.  Positions are 1..Len(s)+1; a position p means "s[1..p-1] has  *)
(* been consumed".                                                         *)
(***************************************************************************)
\* [a-z0-9]+ from position p: every position it can stop at
AlnumRun(s, p) ==
    {q \in (p + 1)..(Len(s) + 1) : \A k \in p..(q - 1) : IsAlnumChar(s[k])}

\* (-[a-z0-9]+)* from the positions P: every position it can stop at
RECURSIVE HyphenGroups(_, _)
HyphenGroups(s, P) ==
    LET Q == P \cup UNION {AlnumRun(s, p + 1) :
                              p \in {x \in P : x <= Len(s) /\ s[x] = HYPHEN}}
    IN IF Q = P THEN P ELSE HyphenGroups(s, Q)

\* $ without re.MULTILINE: the end of the string, or just before a newline
\* that is the last character of the string
AtDollar(s, p) == p = Len(s) + 1 \/ (p = Len(s) /\ s[p] = LF)

re_match_kebab(s) == \E p \in HyphenGroups(s, AlnumRun(s, 1)) : AtDollar(s, p)

MaxWords == 4

\* validate_task_id(task_id) -> (is_valid, error_message)
validate_task_id(task_id) ==
    IF task_id # lower(task_id)
    THEN [is_valid |-> FALSE, error |-> "must be lowercase"]
    ELSE IF Contains(task_id, SPACE)
    THEN [is_valid |-> FALSE, error |-> "must use hyphens, not spaces"]
    ELSE IF ~re_match_kebab(task_id)
    THEN [is_valid |-> FALSE, error |-> "must be kebab-case"]
    ELSE IF Len(split(task_id, HYPHEN)) > MaxWords
    THEN [is_valid |-> FALSE, error |-> "max 4 allowed"]
    ELSE [is_valid |-> TRUE, error |-> "None"]

(***************************************************************************)
(* Enums, Task and Relationship.                                           *)
(***************************************************************************)
\* TaskStatus members (by name) and TaskStatus(value), the lookup by value;
\* "ValueError" stands for the exception the lookup raises
TaskStatusMembers == {"PENDING", "IN_PROGRESS", "DONE"}

TaskStatus(value) ==
    CASE value = "pending" -> "PENDING"
      [] value = "in_progress" -> "IN_PROGRESS"
      [] value = "done" -> "DONE"
      [] OTHER -> "ValueError"

\* RelationType members (by name)
RelationType == {"BLOCKS", "RELATES_TO", "PART_OF"}

None == <<>>

\* Task(id), every other field at its dataclass default
Task(id) ==
    [id |-> id, description |-> "", status |-> "PENDING",
     acceptance_criteria |-> <<>>, checklist |-> <<>>, estimate_hours |-> None]

\* the names hasattr(task, key) finds among the dataclass fields
TaskFields ==
    {"id", "description", "status", "acceptance_criteria", "checklist",
     "estimate_hours"}

\* hasattr(task, key), for the keys the model passes: a dataclass field or a
\* name that is no attribute of Task (method names are not passed)
hasattr(task, key) == key \in DOMAIN task

\* setattr(task, key, value)
setattr(task, key, value) == [task EXCEPT ![key] = value]

\* Relationship(from_task, to_task, relation_type)
Relationship(from_id, to_id, rel_type) ==
    [from_task |-> from_id, to_task |-> to_id, relation_type |-> rel_type]

(***************************************************************************)
(* dict operations on nodes.                                               *)
(***************************************************************************)
Keys(d) == {d[i].key : i \in 1..Len(d)}

\* list(d.keys())
KeyOrder(d) == [i \in 1..Len(d) |-> d[i].key]

Get(d, k) == d[CHOOSE i \in 1..Len(d) : d[i].key = k].task

\* d[k] = t
Put(d, k, t) ==
    IF k \in Keys(d)
    THEN [i \in 1..Len(d) |-> IF d[i].key = k THEN [key |-> k, task |-> t] ELSE d[i]]
    ELSE Append(d, [key |-> k, task |-> t])

\* del d[k]
Del(d, k) == LET Other(e) == e.key # k IN SelectSeq(d, Other)

(***************************************************************************)
(* The record of a call: which operation, with which arguments, the        *)
(* exception it raised ("None" when it returned normally) and the value it *)
(* returned (None for the operations that return nothing); for a command   *)
(* of the CLI, its argument, the error it printed and its exit code.       *)
(***************************************************************************)
NoCall ==
    [op |-> "init", raised |-> "None", task_id |-> <<>>, task |-> Task(<<>>),
     updates |-> <<>>, from_id |-> <<>>, to_id |-> <<>>, rel_type |-> "None",
     returned |-> None, payload |-> <<>>, exit_code |-> 0]

Call(op, raised) == [NoCall EXCEPT !.op = op, !.raised = raised]

\* the effect of a call on the store, with the history it leaves
Outcome(call, new_nodes, new_edges) ==
    /\ nodes' = new_nodes
    /\ edges' = new_edges
    /\ last' = call
    /\ pre_nodes' = nodes
    /\ pre_edges' = edges
    /\ UNCHANGED <<arg, ret, file, pre_file, fs, procs>>

(***************************************************************************)
(* TaskGraph.save and TaskGraph.load, system call by system call.  A file  *)
(* (inode) holds a sequence of chunks; a path names a file (0: no file).   *)
(* The text of a document reaches its file in NChunks writes, each         *)
(* appending at the offset of the handle that writes; a chunk is           *)
(* [by, version, part]: part number part of the document that process by   *)
(* wrote in its save number version, and Hole where nothing was written.   *)
(* A process is one that runs CLI commands one after another.              *)
(***************************************************************************)
NChunks == 2        \* the writes a document takes
MaxSaves == 2       \* the commands a process runs

Reader == 0         \* a process that only loads
Processes == 0..2

Hole == [by |-> 0, version |-> 0, part |-> 0]

NoFiles == [inodes |-> <<>>, graph |-> 0, tmp |-> 0]

NoProcess ==
    [pc |-> "idle", handle |-> 0, offset |-> 0, version |-> 0, seen |-> None,
     at_open |-> None]

\* the content is one whole document
WholeDocument(content) ==
    /\ Len(content) = NChunks
    /\ content[1] # Hole
    /\ \A k \in 1..NChunks :
           content[k] = [by |-> content[1].by, version |-> content[1].version,
                         part |-> k]

\* a step of process p that changes its record and the directory
Step(p, process, files) ==
    /\ procs' = [procs EXCEPT ![p] = process]
    /\ fs' = files
    /\ UNCHANGED <<nodes, edges, last, pre_nodes, pre_edges, arg, ret, file, pre_file>>

\* load_graph: GRAPH_FILE.exists()
Exists(p) ==
    /\ procs[p].pc = "idle"
    /\ Step(p,
            IF fs.graph = 0
            THEN [procs[p] EXCEPT !.pc = "loaded", !.seen = None, !.at_open = None]
            ELSE [procs[p] EXCEPT !.pc = "opening"],
            fs)

\* load: open(filepath, 'r')
LoadOpen(p) ==
    /\ procs[p].pc = "opening"
    /\ Step(p,
            IF fs.graph = 0
            THEN [procs[p] EXCEPT !.pc = "failed"]
            ELSE [procs[p] EXCEPT !.pc = "reading", !.handle = fs.graph,
                                  !.at_open = <<fs.inodes[fs.graph]>>],
            fs)

\* load: f.read() and from_json, which raises on text that is no document
LoadRead(p) ==
    /\ procs[p].pc = "reading"
    /\ LET content == fs.inodes[procs[p].handle]
       IN Step(p,
               [procs[p] EXCEPT !.pc = IF WholeDocument(content) THEN "loaded"
                                       ELSE "failed",
                                !.seen = <<content>>],
               fs)

\* save opening the graph file itself for writing
SaveOpenInPlace(p) ==
    /\ p # Reader
    /\ procs[p].pc = "loaded"
    /\ procs[p].version < MaxSaves
    /\ LET made == fs.graph = 0
           inode == IF made THEN Len(fs.inodes) + 1 ELSE fs.graph
       IN Step(p,
               [procs[p] EXCEPT !.pc = "writing", !.handle = inode, !.offset = 0,
                                !.version = @ + 1],
               [fs EXCEPT !.graph = inode,
                          !.tmp = inode,
                          !.inodes = IF made THEN Append(@, <<>>)
                                     ELSE [@ EXCEPT ![inode] = <<>>]])

\* save: open(temp_path, 'w'), which creates the file or empties the one
\* the path names
SaveOpen(p) ==
    /\ p # Reader
    /\ procs[p].pc = "loaded"
    /\ procs[p].version < MaxSaves
    /\ LET made == fs.tmp = 0
           inode == IF made THEN Len(fs.inodes) + 1 ELSE fs.tmp
       IN Step(p,
               [procs[p] EXCEPT !.pc = "writing", !.handle = inode, !.offset = 0,
                                !.version = @ + 1],
               [fs EXCEPT !.tmp = inode,
                          !.inodes = IF made THEN Append(@, <<>>)
                                     ELSE [@ EXCEPT ![inode] = <<>>]])

\* content with chunk written at position at
WriteAt(content, at, chunk) ==
    [k \in 1..(IF at > Len(content) THEN at ELSE Len(content)) |->
         IF k = at THEN chunk
         ELSE IF k <= Len(content) THEN content[k]
         ELSE Hole]

\* save: f.write(self.to_json()), one write of the text
SaveWrite(p) ==
    /\ procs[p].pc = "writing"
    /\ procs[p].offset < NChunks
    /\ LET at == procs[p].offset + 1
           chunk == [by |-> p, version |-> procs[p].version, part |-> at]
       IN Step(p,
               [procs[p] EXCEPT !.offset = at],
               [fs EXCEPT !.inodes[procs[p].handle] = WriteAt(@, at, chunk)])

\* save: the file is closed and temp_path.replace(filepath) renames it,
\* raising FileNotFoundError when temp_path names no file
SaveReplace(p) ==
    /\ procs[p].pc = "writing"
    /\ procs[p].offset = NChunks
    /\ IF fs.tmp = 0
       THEN Step(p, [procs[p] EXCEPT !.pc = "failed"], fs)
       ELSE Step(p, [procs[p] EXCEPT !.pc = "saved"],
                 [fs EXCEPT !.graph = fs.tmp, !.tmp = 0])

\* the next command of the process
Again(p) ==
    /\ \/ procs[p].pc = "saved"
       \/ p = Reader /\ procs[p].pc = "loaded"
    /\ Step(p, [procs[p] EXCEPT !.pc = "idle", !.handle = 0, !.offset = 0], fs)

\* the commands of the processes ps, a reader among them or not
Commands(ps) ==
    \E p \in ps :
        \/ Exists(p)
        \/ LoadOpen(p)
        \/ LoadRead(p)
        \/ SaveOpen(p)
        \/ SaveWrite(p)
        \/ SaveReplace(p)
        \/ Again(p)

(***************************************************************************)
(* TaskGraph.add_task                                                      *)
(***************************************************************************)
\* add_task storing a fresh Task(task.id) instead of the task it was given
add_task_defaults(task) ==
    LET call(raised) == [Call("add_task", raised) EXCEPT !.task = task,
                                                         !.task_id = task.id]
    IN IF ~validate_task_id(task.id).is_valid
       THEN Outcome(call("Invalid task ID"), nodes, edges)
       ELSE IF task.id \in Keys(nodes)
       THEN Outcome(call("Task ID already exists"), nodes, edges)
       ELSE Outcome(call("None"), Put(nodes, task.id, Task(task.id)), edges)

add_task(task) ==
    LET call(raised) == [Call("add_task", raised) EXCEPT !.task = task,
                                                         !.task_id = task.id]
    IN IF ~validate_task_id(task.id).is_valid
       THEN Outcome(call("Invalid task ID"), nodes, edges)
       ELSE IF task.id \in Keys(nodes)
       THEN Outcome(call("Task ID already exists"), nodes, edges)
       ELSE Outcome(call("None"), Put(nodes, task.id, task), edges)

\* add_task on the graph object of a command: the exception raised and the
\* nodes of the graph after the call
add_task_to(graph_nodes, task) ==
    IF ~validate_task_id(task.id).is_valid
    THEN [raised |-> "Invalid task ID", nodes |-> graph_nodes]
    ELSE IF task.id \in Keys(graph_nodes)
    THEN [raised |-> "Task ID already exists", nodes |-> graph_nodes]
    ELSE [raised |-> "None", nodes |-> Put(graph_nodes, task.id, task)]

(***************************************************************************)
(* TaskGraph.update_task.  updates is the keyword dict, a sequence of      *)
(* [key, value, is_str] in the order the keywords were given; is_str is    *)
(* isinstance(value, str).                                                 *)
(***************************************************************************)
\* the loop over updates.items(), from item i on, on the Task object task:
\* the object as the loop leaves it, and the exception that ended the loop
RECURSIVE apply_updates(_, _, _)
apply_updates(task, updates, i) ==
    IF i > Len(updates) THEN [task |-> task, raised |-> "None"]
    ELSE LET key == updates[i].key
             convert == key = "status" /\ updates[i].is_str
             value == IF convert THEN TaskStatus(updates[i].value)
                      ELSE updates[i].value
         IN IF convert /\ value = "ValueError"
            THEN [task |-> task, raised |-> "not a valid TaskStatus"]
            ELSE apply_updates(
                     IF hasattr(task, key) THEN setattr(task, key, value) ELSE task,
                     updates, i + 1)

\* update_task applying the updates to a fresh Task(task_id)
update_task_fresh(task_id, updates) ==
    LET call(raised) == [Call("update_task", raised) EXCEPT !.task_id = task_id,
                                                            !.updates = updates]
    IN IF task_id \notin Keys(nodes)
       THEN Outcome(call("Task not found"), nodes, edges)
       ELSE LET r == apply_updates(Task(task_id), updates, 1)
            IN Outcome(call(r.raised), Put(nodes, task_id, r.task), edges)

\* update_task refusing to touch a task that is done
update_task_locked(task_id, updates) ==
    LET call(raised) == [Call("update_task", raised) EXCEPT !.task_id = task_id,
                                                            !.updates = updates]
    IN IF task_id \notin Keys(nodes)
       THEN Outcome(call("Task not found"), nodes, edges)
       ELSE IF Get(nodes, task_id).status = "DONE"
       THEN Outcome(call("Task is done"), nodes, edges)
       ELSE LET r == apply_updates(Get(nodes, task_id), updates, 1)
            IN Outcome(call(r.raised), Put(nodes, task_id, r.task), edges)

update_task(task_id, updates) ==
    LET call(raised) == [Call("update_task", raised) EXCEPT !.task_id = task_id,
                                                            !.updates = updates]
    IN IF task_id \notin Keys(nodes)
       THEN Outcome(call("Task not found"), nodes, edges)
       ELSE LET r == apply_updates(Get(nodes, task_id), updates, 1)
            IN Outcome(call(r.raised), Put(nodes, task_id, r.task), edges)

\* update_task on the graph object of a command: the exception raised and
\* the nodes of the graph after the call
update_task_to(graph_nodes, task_id, updates) ==
    IF task_id \notin Keys(graph_nodes)
    THEN [raised |-> "Task not found", nodes |-> graph_nodes]
    ELSE LET r == apply_updates(Get(graph_nodes, task_id), updates, 1)
         IN [raised |-> r.raised, nodes |-> Put(graph_nodes, task_id, r.task)]

(***************************************************************************)
(* TaskGraph.delete_task                                                   *)
(***************************************************************************)
\* delete_task leaving every edge in place
delete_task_no_cascade(task_id) ==
    LET call == [Call("delete_task", "None") EXCEPT !.task_id = task_id]
    IN Outcome(call,
               IF task_id \in Keys(nodes) THEN Del(nodes, task_id) ELSE nodes,
               edges)

\* delete_task cascading only to the edges the task is the source of
delete_task_sources(task_id) ==
    LET call == [Call("delete_task", "None") EXCEPT !.task_id = task_id]
        NotSource(edge) == edge.from_task # task_id
    IN Outcome(call,
               IF task_id \in Keys(nodes) THEN Del(nodes, task_id) ELSE nodes,
               SelectSeq(edges, NotSource))

delete_task(task_id) ==
    LET call == [Call("delete_task", "None") EXCEPT !.task_id = task_id]
        NotIncident(edge) == edge.from_task # task_id /\ edge.to_task # task_id
    IN Outcome(call,
               IF task_id \in Keys(nodes) THEN Del(nodes, task_id) ELSE nodes,
               SelectSeq(edges, NotIncident))

(***************************************************************************)
(* TaskGraph.add_relationship                                              *)
(***************************************************************************)
\* the loop "for rel in self.edges" of add_relationship: some rel has this
\* source, target and type
HasTriple(es, from_id, to_id, rel_type) ==
    \E i \in 1..Len(es) :
        /\ es[i].from_task = from_id
        /\ es[i].to_task = to_id
        /\ es[i].relation_type = rel_type

\* add_relationship without the check of the target
add_relationship_source_only(from_id, to_id, rel_type) ==
    LET call(raised) == [Call("add_relationship", raised) EXCEPT
                             !.from_id = from_id, !.to_id = to_id,
                             !.rel_type = rel_type]
    IN IF from_id \notin Keys(nodes)
       THEN Outcome(call("Source task not found"), nodes, edges)
       ELSE IF HasTriple(edges, from_id, to_id, rel_type)
       THEN Outcome(call("None"), nodes, edges)
       ELSE Outcome(call("None"), nodes,
                    Append(edges, Relationship(from_id, to_id, rel_type)))

\* add_relationship taking an edge between the same tasks, of any type, for
\* a duplicate
add_relationship_any_type(from_id, to_id, rel_type) ==
    LET call(raised) == [Call("add_relationship", raised) EXCEPT
                             !.from_id = from_id, !.to_id = to_id,
                             !.rel_type = rel_type]
    IN IF from_id \notin Keys(nodes)
       THEN Outcome(call("Source task not found"), nodes, edges)
       ELSE IF to_id \notin Keys(nodes)
       THEN Outcome(call("Target task not found"), nodes, edges)
       ELSE IF \E i \in 1..Len(edges) :
                   edges[i].from_task = from_id /\ edges[i].to_task = to_id
       THEN Outcome(call("None"), nodes, edges)
       ELSE Outcome(call("None"), nodes,
                    Append(edges, Relationship(from_id, to_id, rel_type)))

add_relationship(from_id, to_id, rel_type) ==
    LET call(raised) == [Call("add_relationship", raised) EXCEPT
                             !.from_id = from_id, !.to_id = to_id,
                             !.rel_type = rel_type]
    IN IF from_id \notin Keys(nodes)
       THEN Outcome(call("Source task not found"), nodes, edges)
       ELSE IF to_id \notin Keys(nodes)
       THEN Outcome(call("Target task not found"), nodes, edges)
       ELSE IF HasTriple(edges, from_id, to_id, rel_type)
       THEN Outcome(call("None"), nodes, edges)
       ELSE Outcome(call("None"), nodes,
                    Append(edges, Relationship(from_id, to_id, rel_type)))

\* add_relationship on the graph object of a command: the exception raised
\* and the edges of the graph after the call
add_relationship_to(graph_nodes, graph_edges, from_id, to_id, rel_type) ==
    IF from_id \notin Keys(graph_nodes)
    THEN [raised |-> "Source task not found", edges |-> graph_edges]
    ELSE IF to_id \notin Keys(graph_nodes)
    THEN [raised |-> "Target task not found", edges |-> graph_edges]
    ELSE IF HasTriple(graph_edges, from_id, to_id, rel_type)
    THEN [raised |-> "None", edges |-> graph_edges]
    ELSE [raised |-> "None",
          edges |-> Append(graph_edges, Relationship(from_id, to_id, rel_type))]

(***************************************************************************)
(* TaskGraph.delete_relationship; rel_type is a RelationType or "None"     *)
(***************************************************************************)
\* delete_relationship removing the edges of the pair whatever their type
delete_relationship_any_type(from_id, to_id, rel_type) ==
    LET call == [Call("delete_relationship", "None") EXCEPT
                     !.from_id = from_id, !.to_id = to_id, !.rel_type = rel_type]
        KeepPair(edge) == ~(edge.from_task = from_id /\ edge.to_task = to_id)
    IN Outcome(call, nodes, SelectSeq(edges, KeepPair))

\* delete_relationship that, given no type, removes the blocks edge only
delete_relationship_default_blocks(from_id, to_id, rel_type) ==
    LET call == [Call("delete_relationship", "None") EXCEPT
                     !.from_id = from_id, !.to_id = to_id, !.rel_type = rel_type]
        type == IF rel_type # "None" THEN rel_type ELSE "BLOCKS"
        KeepTyped(edge) == ~(/\ edge.from_task = from_id
                             /\ edge.to_task = to_id
                             /\ edge.relation_type = type)
    IN Outcome(call, nodes, SelectSeq(edges, KeepTyped))

delete_relationship(from_id, to_id, rel_type) ==
    LET call == [Call("delete_relationship", "None") EXCEPT
                     !.from_id = from_id, !.to_id = to_id, !.rel_type = rel_type]
        KeepTyped(edge) == ~(/\ edge.from_task = from_id
                             /\ edge.to_task = to_id
                             /\ edge.relation_type = rel_type)
        KeepPair(edge) == ~(edge.from_task = from_id /\ edge.to_task = to_id)
    IN IF rel_type # "None"
       THEN Outcome(call, nodes, SelectSeq(edges, KeepTyped))
       ELSE Outcome(call, nodes, SelectSeq(edges, KeepPair))

(***************************************************************************)
(* TaskGraph.from_json.  The document is the value json.loads returns: a   *)
(* JSON object is a record, except "nodes", whose members stay in document *)
(* order as a sequence of [key, data]; a JSON array is a sequence.         *)
(***************************************************************************)
\* RelationType(value), the lookup by value
RelationTypeOf(value) ==
    CASE value = "blocks" -> "BLOCKS"
      [] value = "relates_to" -> "RELATES_TO"
      [] value = "part_of" -> "PART_OF"
      [] OTHER -> "ValueError"

\* data.get(key, default)
get(data, key, default) == IF key \in DOMAIN data THEN data[key] ELSE default

\* Task.from_dict(data): the Task, or the exception raised
Task_from_dict(data) ==
    IF "id" \notin DOMAIN data THEN [raised |-> "KeyError", task |-> Task(<<>>)]
    ELSE IF TaskStatus(get(data, "status", "pending")) = "ValueError"
    THEN [raised |-> "not a valid TaskStatus", task |-> Task(<<>>)]
    ELSE [raised |-> "None",
          task |-> [id |-> data.id,
                    description |-> get(data, "description", ""),
                    status |-> TaskStatus(get(data, "status", "pending")),
                    acceptance_criteria |-> get(data, "acceptance_criteria", <<>>),
                    checklist |-> get(data, "checklist", <<>>),
                    estimate_hours |-> get(data, "estimate_hours", None)]]

\* Relationship.from_dict(data): the Relationship, or the exception raised
Relationship_from_dict(data) ==
    IF {"from", "to", "type"} \ DOMAIN data # {}
    THEN [raised |-> "KeyError", edge |-> Relationship(<<>>, <<>>, "None")]
    ELSE IF RelationTypeOf(data.type) = "ValueError"
    THEN [raised |-> "not a valid RelationType",
          edge |-> Relationship(<<>>, <<>>, "None")]
    ELSE [raised |-> "None",
          edge |-> Relationship(data.from, data.to, RelationTypeOf(data.type))]

\* the loop "for task_id, task_data in ...items()" from item i on
RECURSIVE load_nodes(_, _, _)
load_nodes(items, i, graph_nodes) ==
    IF i > Len(items) THEN [raised |-> "None", nodes |-> graph_nodes]
    ELSE LET r == Task_from_dict(items[i].data)
         IN IF r.raised # "None" THEN [raised |-> r.raised, nodes |-> graph_nodes]
            ELSE load_nodes(items, i + 1, Put(graph_nodes, items[i].key, r.task))

\* the loop "for edge_data in ..." from item i on
RECURSIVE load_edges(_, _, _)
load_edges(items, i, graph_edges) ==
    IF i > Len(items) THEN [raised |-> "None", edges |-> graph_edges]
    ELSE LET r == Relationship_from_dict(items[i])
         IN IF r.raised # "None" THEN [raised |-> r.raised, edges |-> graph_edges]
            ELSE load_edges(items, i + 1, Append(graph_edges, r.edge))

\* the graph TaskGraph.from_json builds from data = json.loads(json_str),
\* or the exception raised (the nodes are loaded before the edges)
from_json_graph(doc) ==
    LET n == load_nodes(get(doc, "nodes", <<>>), 1, <<>>)
        e == load_edges(get(doc, "edges", <<>>), 1, <<>>)
    IN IF n.raised # "None"
       THEN [raised |-> n.raised, nodes |-> <<>>, edges |-> <<>>]
       ELSE IF e.raised # "None"
       THEN [raised |-> e.raised, nodes |-> <<>>, edges |-> <<>>]
       ELSE [raised |-> "None", nodes |-> n.nodes, edges |-> e.edges]

\* TaskGraph.from_json as the constructor of the graph: it yields the graph
\* the later calls act on; when it raises it yields none, and the caller is
\* left with the empty TaskGraph() it started from
from_json(doc) ==
    LET graph == from_json_graph(doc)
    IN /\ last.op = "init"
       /\ IF graph.raised # "None"
          THEN Outcome(Call("from_json", graph.raised), nodes, edges)
          ELSE Outcome(Call("from_json", "None"), graph.nodes, graph.edges)

(***************************************************************************)
(* to_json.  The document is the data handed to json.dumps, in the shape   *)
(* json.loads hands back to from_json: strings, numbers, booleans, None,   *)
(* lists and string-keyed dicts pass through JSON text unchanged, and the  *)
(* dicts keep the order of their keys.                                     *)
(***************************************************************************)
\* status.value
TaskStatusValue(member) ==
    CASE member = "PENDING" -> "pending"
      [] member = "IN_PROGRESS" -> "in_progress"
      [] member = "DONE" -> "done"

\* relation_type.value
RelationTypeValue(member) ==
    CASE member = "BLOCKS" -> "blocks"
      [] member = "RELATES_TO" -> "relates_to"
      [] member = "PART_OF" -> "part_of"

\* Task.to_dict writing the name of the status in place of its value
Task_to_dict_names(task) ==
    [id |-> task.id, description |-> task.description, status |-> task.status,
     acceptance_criteria |-> task.acceptance_criteria,
     checklist |-> task.checklist, estimate_hours |-> task.estimate_hours]

\* Task.to_dict()
Task_to_dict(task) ==
    [id |-> task.id, description |-> task.description,
     status |-> TaskStatusValue(task.status),
     acceptance_criteria |-> task.acceptance_criteria,
     checklist |-> task.checklist, estimate_hours |-> task.estimate_hours]

\* Relationship.to_dict()
Relationship_to_dict(edge) ==
    [from |-> edge.from_task, to |-> edge.to_task,
     type |-> RelationTypeValue(edge.relation_type)]

\* the data of TaskGraph.to_json()
to_json(graph_nodes, graph_edges) ==
    [nodes |-> [i \in 1..Len(graph_nodes) |->
                    [key |-> graph_nodes[i].key,
                     data |-> Task_to_dict(graph_nodes[i].task)]],
     edges |-> [i \in 1..Len(graph_edges) |->
                    Relationship_to_dict(graph_edges[i])]]

(***************************************************************************)
(* The queries, as functions of the graph.  One that can raise yields the  *)
(* exception and the value: [raised, value].                               *)
(***************************************************************************)
\* the elements of a sequence
Range(seq) == {seq[i] : i \in 1..Len(seq)}

\* get_blocking_dependencies(task_id); self.nodes[rel.from_task] raises
\* KeyError when the source of a matching edge is not a key
get_blocking_dependencies(graph_nodes, graph_edges, task_id) ==
    LET Matches(rel) == rel.to_task = task_id /\ rel.relation_type = "BLOCKS"
        matching == SelectSeq(graph_edges, Matches)
    IN IF \E i \in 1..Len(matching) : matching[i].from_task \notin Keys(graph_nodes)
       THEN [raised |-> "KeyError", value |-> <<>>]
       ELSE [raised |-> "None",
             value |-> [i \in 1..Len(matching) |->
                            Get(graph_nodes, matching[i].from_task)]]

\* get_blocked_tasks(task_id); self.nodes[rel.to_task] raises KeyError when
\* the target of a matching edge is not a key
get_blocked_tasks(graph_nodes, graph_edges, task_id) ==
    LET Matches(rel) == rel.from_task = task_id /\ rel.relation_type = "BLOCKS"
        matching == SelectSeq(graph_edges, Matches)
    IN IF \E i \in 1..Len(matching) : matching[i].to_task \notin Keys(graph_nodes)
       THEN [raised |-> "KeyError", value |-> <<>>]
       ELSE [raised |-> "None",
             value |-> [i \in 1..Len(matching) |->
                            Get(graph_nodes, matching[i].to_task)]]

\* is_complete counting a started task as complete
is_complete_started(task) == task.status # "PENDING"

\* Task.is_complete()
is_complete(task) == task.status = "DONE"

\* is_blocked(task_id)
is_blocked(graph_nodes, graph_edges, task_id) ==
    LET deps == get_blocking_dependencies(graph_nodes, graph_edges, task_id)
    IN IF deps.raised # "None" THEN [raised |-> deps.raised, value |-> FALSE]
       ELSE [raised |-> "None",
             value |-> \E i \in 1..Len(deps.value) : ~is_complete(deps.value[i])]

\* get_available_tasks leaving the blocked tasks out
get_available_tasks_ready_only(graph_nodes, graph_edges) ==
    LET IsReady(item) ==
            /\ item.task.status = "PENDING"
            /\ ~is_blocked(graph_nodes, graph_edges, item.task.id).value
        ready == SelectSeq(graph_nodes, IsReady)
    IN [raised |-> "None",
        value |-> [i \in 1..Len(ready) |->
                       [task |-> ready[i].task, is_ready |-> TRUE]]]

\* get_available_tasks(): the (task, is_ready) pairs; is_blocked is asked
\* with task.id
get_available_tasks(graph_nodes, graph_edges) ==
    LET IsPending(item) == item.task.status = "PENDING"
        pending == SelectSeq(graph_nodes, IsPending)
        Blocked(i) == is_blocked(graph_nodes, graph_edges, pending[i].task.id)
    IN IF \E i \in 1..Len(pending) : Blocked(i).raised # "None"
       THEN [raised |-> "KeyError", value |-> <<>>]
       ELSE [raised |-> "None",
             value |-> [i \in 1..Len(pending) |->
                            [task |-> pending[i].task,
                             is_ready |-> ~Blocked(i).value]]]

\* the number of iterations after which a loop is counted as not ending
MaxLoop == 12

\* the while loop of get_downstream_tasks from its iteration number steps + 1
\* on: the downstream set once the queue is empty
RECURSIVE downstream_loop(_, _, _, _, _)
downstream_loop(graph_edges, queue, visited, downstream, steps) ==
    IF queue = <<>> THEN [ended |-> TRUE, value |-> downstream]
    ELSE IF steps = MaxLoop THEN [ended |-> FALSE, value |-> downstream]
    ELSE LET current == Head(queue)
             Leaves(rel) == rel.from_task = current /\ rel.relation_type = "BLOCKS"
             leaving == SelectSeq(graph_edges, Leaves)
             targets == [i \in 1..Len(leaving) |-> leaving[i].to_task]
         IN IF current \in visited
            THEN downstream_loop(graph_edges, Tail(queue), visited, downstream,
                                 steps + 1)
            ELSE downstream_loop(graph_edges, Tail(queue) \o targets,
                                 visited \cup {current},
                                 downstream \cup Range(targets), steps + 1)

\* get_downstream_tasks never answering the task it was asked about
get_downstream_tasks_but_itself(graph_edges, task_id) ==
    LET result == downstream_loop(graph_edges, <<task_id>>, {}, {}, 0)
    IN [result EXCEPT !.value = @ \ {task_id}]

\* get_downstream_tasks following the edges of every type
get_downstream_tasks_any_type(graph_edges, task_id) ==
    LET untyped == [i \in 1..Len(graph_edges) |->
                        [graph_edges[i] EXCEPT !.relation_type = "BLOCKS"]]
    IN downstream_loop(untyped, <<task_id>>, {}, {}, 0)

\* get_downstream_tasks(task_id)
get_downstream_tasks(graph_edges, task_id) ==
    downstream_loop(graph_edges, <<task_id>>, {}, {}, 0)

\* path.index(x) answering the start of the path for every x in it
index_of_root(path, x) == IF x \in Range(path) THEN 1 ELSE 0

\* path.index(x): 0 stands for the ValueError of an x that is not in path
index(path, x) ==
    IF x \in Range(path)
    THEN CHOOSE i \in 1..Len(path) : path[i] = x /\ \A j \in 1..(i - 1) : path[j] # x
    ELSE 0

\* dfs(node, path) of detect_cycles, path being the caller's copy; search is
\* [visited, rec_stack, cycles, raised], the variables the closure shares.
\* dfs_edges is its loop over self.edges from edge i on.
RECURSIVE dfs(_, _, _, _)
RECURSIVE dfs_edges(_, _, _, _, _)
dfs(graph_edges, node, path, search) ==
    LET entered == [search EXCEPT !.visited = @ \cup {node},
                                  !.rec_stack = @ \cup {node}]
        done == dfs_edges(graph_edges, 1, node, Append(path, node), entered)
    IN [done EXCEPT !.rec_stack = @ \ {node}]

\* the loop of dfs entering every neighbor that is not on the recursion
\* stack, visited or not
dfs_edges_all_paths(graph_edges, i, node, path, search) ==
    IF i > Len(graph_edges) \/ search.raised # "None" THEN search
    ELSE LET edge == graph_edges[i]
             neighbor == edge.to_task
             cycle_start == index(path, neighbor)
         IN IF ~(edge.from_task = node /\ edge.relation_type = "BLOCKS")
            THEN dfs_edges(graph_edges, i + 1, node, path, search)
            ELSE IF neighbor \notin search.rec_stack
            THEN dfs_edges(graph_edges, i + 1, node, path,
                           dfs(graph_edges, neighbor, path, search))
            ELSE IF cycle_start = 0
            THEN [search EXCEPT !.raised = "ValueError"]
            ELSE dfs_edges(graph_edges, i + 1, node, path,
                           [search EXCEPT !.cycles =
                                Append(@, SubSeq(path, cycle_start, Len(path))
                                          \o <<neighbor>>)])

dfs_edges(graph_edges, i, node, path, search) ==
    IF i > Len(graph_edges) \/ search.raised # "None" THEN search
    ELSE LET edge == graph_edges[i]
             neighbor == edge.to_task
             cycle_start == index(path, neighbor)
         IN IF ~(edge.from_task = node /\ edge.relation_type = "BLOCKS")
            THEN dfs_edges(graph_edges, i + 1, node, path, search)
            ELSE IF neighbor \notin search.visited
            THEN dfs_edges(graph_edges, i + 1, node, path,
                           dfs(graph_edges, neighbor, path, search))
            ELSE IF neighbor \notin search.rec_stack
            THEN dfs_edges(graph_edges, i + 1, node, path, search)
            ELSE IF cycle_start = 0
            THEN [search EXCEPT !.raised = "ValueError"]
            ELSE dfs_edges(graph_edges, i + 1, node, path,
                           [search EXCEPT !.cycles =
                                Append(@, SubSeq(path, cycle_start, Len(path))
                                          \o <<neighbor>>)])

\* the loop "for node_id in self.nodes.keys()" from key i on
RECURSIVE dfs_roots(_, _, _, _)
dfs_roots(graph_nodes, graph_edges, i, search) ==
    IF i > Len(graph_nodes) \/ search.raised # "None" THEN search
    ELSE IF graph_nodes[i].key \in search.visited
    THEN dfs_roots(graph_nodes, graph_edges, i + 1, search)
    ELSE dfs_roots(graph_nodes, graph_edges, i + 1,
                   dfs(graph_edges, graph_nodes[i].key, <<>>, search))

NewSearch == [visited |-> {}, rec_stack |-> {}, cycles |-> <<>>, raised |-> "None"]

\* detect_cycles searching from the first task only
detect_cycles_first_root(graph_nodes, graph_edges) ==
    LET first == SubSeq(graph_nodes, 1, IF graph_nodes = <<>> THEN 0 ELSE 1)
        search == dfs_roots(first, graph_edges, 1, NewSearch)
    IN [raised |-> search.raised, value |-> search.cycles]

\* detect_cycles()
detect_cycles(graph_nodes, graph_edges) ==
    LET search == dfs_roots(graph_nodes, graph_edges, 1, NewSearch)
    IN [raised |-> search.raised, value |-> search.cycles]

\* find_orphans()
find_orphans(graph_nodes, graph_edges) ==
    LET connected == UNION {{graph_edges[i].from_task, graph_edges[i].to_task} :
                                i \in 1..Len(graph_edges)}
        Alone(item) == item.key \notin connected
    IN KeyOrder(SelectSeq(graph_nodes, Alone))

(***************************************************************************)
(* The queries as calls on the graph.                                      *)
(***************************************************************************)
\* a call of a method that returns a value and assigns nothing in the graph
Query(op, task_id, returned) ==
    Outcome([Call(op, "None") EXCEPT !.task_id = task_id, !.returned = returned],
            nodes, edges)

\* a call of a method that may raise: result is [raised, value]
QueryResult(op, task_id, result) ==
    IF result.raised # "None"
    THEN Outcome([Call(op, result.raised) EXCEPT !.task_id = task_id], nodes, edges)
    ELSE Query(op, task_id, result.value)

\* graph.to_json()
ToJson == Query("to_json", <<>>, to_json(nodes, edges))

DetectCycles == QueryResult("detect_cycles", <<>>, detect_cycles(nodes, edges))

\* find_orphans deleting the orphans it reports
FindOrphansPruning ==
    LET orphans == find_orphans(nodes, edges)
        Connected(item) == item.key \notin Range(orphans)
    IN Outcome([Call("find_orphans", "None") EXCEPT !.returned = orphans],
               SelectSeq(nodes, Connected), edges)

FindOrphans == Query("find_orphans", <<>>, find_orphans(nodes, edges))

GetBlockingDependencies(ids) ==
    \E task_id \in ids :
        QueryResult("get_blocking_dependencies", task_id,
                    get_blocking_dependencies(nodes, edges, task_id))

GetBlockedTasks(ids) ==
    \E task_id \in ids :
        QueryResult("get_blocked_tasks", task_id,
                    get_blocked_tasks(nodes, edges, task_id))

IsBlocked(ids) ==
    \E task_id \in ids :
        QueryResult("is_blocked", task_id, is_blocked(nodes, edges, task_id))

GetAvailableTasks ==
    QueryResult("get_available_tasks", <<>>, get_available_tasks(nodes, edges))

\* a call that does not end within MaxLoop iterations is recorded as
\* "no return"
GetDownstreamTasks(ids) ==
    \E task_id \in ids :
        LET result == get_downstream_tasks(edges, task_id)
        IN QueryResult("get_downstream_tasks", task_id,
                       [raised |-> IF result.ended THEN "None" ELSE "no return",
                        value |-> result.value])

(***************************************************************************)
(* The operations as actions, each over the arguments it is called with.   *)
(***************************************************************************)
AddTask(tasks) == \E task \in tasks : add_task(task)

UpdateTask(ids, kwargs) ==
    \E task_id \in ids, updates \in kwargs : update_task(task_id, updates)

DeleteTask(ids) == \E task_id \in ids : delete_task(task_id)

AddRelationship(ids, types) ==
    \E from_id \in ids, to_id \in ids, rel_type \in types :
        /\ add_relationship(from_id, to_id, rel_type)
        /\ Len(edges') <= MaxEdges

DeleteRelationship(ids, types) ==
    \E from_id \in ids, to_id \in ids, rel_type \in types :
        delete_relationship(from_id, to_id, rel_type)

\* every sequence over S of length at most n
SeqsUpTo(S, n) == UNION {[1..k -> S] : k \in 0..n}

\* TaskGraph()
Init ==
    /\ nodes = <<>>
    /\ edges = <<>>
    /\ last = NoCall
    /\ pre_nodes = <<>>
    /\ pre_edges = <<>>
    /\ arg = <<>>
    /\ ret = <<>>
    /\ file = None
    /\ pre_file = None
    /\ fs = NoFiles
    /\ procs = [p \in Processes |-> NoProcess]

(***************************************************************************)
(* Arguments of the calls.                                                 *)
(***************************************************************************)
IdA == <<97>>                       \* "a"
IdB == <<98, HYPHEN, 48>>           \* "b-0"
IdUpper == <<65>>                   \* "A"

\* ids of the tasks of the graph; each is absent from the store at times
GraphIds == {IdA, IdB}

\* a Task with no field but status left at its default
FullTask(id) ==
    [Task(id) EXCEPT !.description = "d", !.acceptance_criteria = <<"c">>,
                     !.checklist = <<[item |-> "i", done |-> FALSE]>>,
                     !.estimate_hours = <<2>>]

Kw(key, value, is_str) == [key |-> key, value |-> value, is_str |-> is_str]

\* description=..., acceptance_criteria=..., checklist=..., estimate_hours=...
Details ==
    <<Kw("description", "d", TRUE), Kw("acceptance_criteria", <<"c">>, FALSE),
      Kw("checklist", <<[item |-> "i", done |-> FALSE]>>, FALSE),
      Kw("estimate_hours", <<2>>, FALSE)>>

BadStatus == <<Kw("status", "bogus", TRUE)>>

(***************************************************************************)
(* Spec: a graph of two tasks under all five mutating operations, with     *)
(* every relationship type between every ordered pair of its tasks.        *)
(***************************************************************************)
Tasks == {Task(IdA), FullTask(IdB), Task(IdUpper)}

StatusUpdates == {<<Kw("status", v, TRUE)>> : v \in {"pending", "done"}}

Next ==
    \/ AddTask(Tasks)
    \/ UpdateTask(GraphIds, StatusUpdates)
    \/ DeleteTask(GraphIds)
    \/ AddRelationship(GraphIds, RelationType)
    \/ DeleteRelationship(GraphIds, RelationType \cup {"None"})

Spec == Init /\ [][Next]_vars

(***************************************************************************)
(* SpecFields: the same graph with every field of its tasks set and        *)
(* updated, the keyword dicts of update_task in both orders, and blocks    *)
(* relationships only.                                                     *)
(***************************************************************************)
FieldTasks == {Task(id) : id \in GraphIds} \cup {FullTask(id) : id \in GraphIds}

Updates ==
    {<<Kw("status", v, TRUE)>> : v \in {"pending", "in_progress", "done"}}
    \cup {BadStatus,
          <<Kw("status", "DONE", FALSE)>>,      \* status=TaskStatus.DONE
          Details,
          Details \o BadStatus,                 \* the bad status last
          BadStatus \o Details,                 \* the bad status first
          <<Kw("priority", "high", TRUE)>>}     \* no such attribute

NextFields ==
    \/ AddTask(FieldTasks)
    \/ UpdateTask(GraphIds, Updates)
    \/ DeleteTask(GraphIds)
    \/ AddRelationship(GraphIds, {"BLOCKS"})

SpecFields == Init /\ [][NextFields]_vars

(***************************************************************************)
(* SpecIds: add_task over ids on both sides of the identifier policy,      *)
(* with delete_task and blocks relationships.                              *)
(***************************************************************************)
IdFour == <<97, HYPHEN, 97, HYPHEN, 97, HYPHEN, 97>>                \* "a-a-a-a"
IdFive == <<97, HYPHEN, 97, HYPHEN, 97, HYPHEN, 97, HYPHEN, 97>>    \* "a-a-a-a-a"
IdSpace == <<97, SPACE, 98>>                                        \* "a b"
IdEmpty == <<>>                                                     \* ""
IdLeading == <<HYPHEN, 97>>                                         \* "-a"
IdTrailing == <<97, HYPHEN>>                                        \* "a-"
IdDoubled == <<97, HYPHEN, HYPHEN, 97>>                             \* "a--a"
IdNewline == <<97, LF>>                                             \* "a\n"
IdUnderscore == <<97, 95, 97>>                                      \* "a_a"

IdStrings ==
    {IdA, IdB, IdFour, IdFive, IdUpper, IdSpace, IdEmpty, IdLeading, IdTrailing,
     IdDoubled, IdNewline, IdUnderscore}

IdTasks == {Task(id) : id \in IdStrings} \cup {FullTask(IdA)}

NextIds ==
    \/ AddTask(IdTasks)
    \/ DeleteTask({IdA, IdNewline, IdFive})
    \/ AddRelationship(GraphIds, {"BLOCKS"})

SpecIds == Init /\ [][NextIds]_vars

(***************************************************************************)
(* SpecRound: the graph of two tasks in every status, with every           *)
(* relationship type, serialised by to_json.                               *)
(***************************************************************************)
AllStatusUpdates ==
    {<<Kw("status", v, TRUE)>> : v \in {"pending", "in_progress", "done"}}

NextRound ==
    \/ AddTask({Task(IdA), FullTask(IdB)})
    \/ UpdateTask(GraphIds, AllStatusUpdates)
    \/ AddRelationship(GraphIds, RelationType)
    \/ ToJson

SpecRound == Init /\ [][NextRound]_vars

(***************************************************************************)
(* SpecQueries: the graph of two tasks in every status, with blocks and    *)
(* relates_to relationships, under every query.                            *)
(***************************************************************************)
NextQueries ==
    \/ AddTask({Task(IdA), Task(IdB)})
    \/ UpdateTask(GraphIds, AllStatusUpdates)
    \/ AddRelationship(GraphIds, {"BLOCKS", "RELATES_TO"})
    \/ DetectCycles
    \/ FindOrphans
    \/ GetBlockingDependencies(GraphIds)
    \/ GetBlockedTasks(GraphIds)
    \/ IsBlocked(GraphIds)
    \/ GetAvailableTasks
    \/ GetDownstreamTasks(GraphIds)
    \/ ToJson

SpecQueries == Init /\ [][NextQueries]_vars

(***************************************************************************)
(* SpecCycles: detect_cycles and get_downstream_tasks applied to a graph   *)
(* of up to three tasks.  The graph is any that add_task and               *)
(* add_relationship build: the tasks in any insertion order, then up to    *)
(* MaxGraphEdges distinct edges in any order, each a blocks edge between   *)
(* any two of the tasks or a part_of edge between any two of the tasks of  *)
(* GraphIds (self loops too).                                              *)
(***************************************************************************)
MaxGraphEdges == 3

IdC == <<99>>                       \* "c"

CycleIds == {IdA, IdB, IdC}

\* the sequences over S of length at most n without a repeated element
DistinctSeqs(S, n) ==
    {seq \in SeqsUpTo(S, n) :
         \A i \in 1..Len(seq), j \in 1..Len(seq) : i # j => seq[i] # seq[j]}

InitCycles ==
    /\ \E ids \in DistinctSeqs(CycleIds, Cardinality(CycleIds)) :
           /\ nodes = [i \in 1..Len(ids) |-> [key |-> ids[i], task |-> Task(ids[i])]]
           /\ edges \in DistinctSeqs(
                  {Relationship(from_id, to_id, "BLOCKS") :
                       from_id \in Range(ids), to_id \in Range(ids)}
                  \cup {Relationship(from_id, to_id, "PART_OF") :
                            from_id \in Range(ids) \cap GraphIds,
                            to_id \in Range(ids) \cap GraphIds},
                  MaxGraphEdges)
    /\ pre_nodes = nodes
    /\ pre_edges = edges
    /\ last = NoCall
    /\ arg = <<>>
    /\ ret = <<>>
    /\ file = None
    /\ pre_file = None
    /\ fs = NoFiles
    /\ procs = [p \in Processes |-> NoProcess]

NextCycles ==
    \/ DetectCycles
    \/ GetDownstreamTasks(CycleIds)

SpecCycles == InitCycles /\ [][NextCycles]_vars

(***************************************************************************)
(* SpecJson: a graph constructed by from_json from a document, then        *)
(* delete_task and the readiness queries on it.  The documents include ones no sequence of the       *)
(* mutating operations produces: an edge whose endpoint is no task, the    *)
(* same edge twice, a task stored under another key than its id.           *)
(***************************************************************************)
MaxDocEdges == 2

NodeItem(key, data) == [key |-> key, data |-> data]

FullData(id) ==
    [id |-> id, description |-> "d", status |-> "done",
     acceptance_criteria |-> <<"c">>,
     checklist |-> <<[item |-> "i", done |-> TRUE]>>, estimate_hours |-> <<2>>]

DocNodes ==
    {<<>>,
     <<NodeItem(IdA, [id |-> IdA])>>,
     <<NodeItem(IdB, FullData(IdB)), NodeItem(IdA, [id |-> IdA])>>,
     <<NodeItem(IdA, [id |-> IdB])>>,
     <<NodeItem(IdUpper, [id |-> IdUpper])>>,
     <<NodeItem(IdA, [id |-> IdA]), NodeItem(IdB, [id |-> IdB, status |-> "bogus"])>>,
     <<NodeItem(IdA, [description |-> "d"])>>}

DocEdge(from_id, to_id, type) == [from |-> from_id, to |-> to_id, type |-> type]

DocEdges ==
    SeqsUpTo({DocEdge(f, t, ty) : f \in GraphIds, t \in GraphIds,
                                  ty \in {"blocks", "part_of"}}, MaxDocEdges)
    \cup {<<DocEdge(IdA, IdA, "blocks"), DocEdge(IdA, IdB, "bogus")>>,
          <<[from |-> IdA, to |-> IdB]>>}

Docs ==
    {[nodes |-> n, edges |-> e] : n \in DocNodes, e \in DocEdges}
    \cup {[nodes |-> n] : n \in DocNodes}
    \cup {[edges |-> e] : e \in DocEdges}

FromJson(docs) == \E doc \in docs : from_json(doc)

NextJson ==
    \/ FromJson(Docs)
    \/ DeleteTask(GraphIds)
    \/ IsBlocked(GraphIds)
    \/ GetBlockingDependencies(GraphIds)
    \/ GetBlockedTasks(GraphIds)
    \/ GetAvailableTasks
    \/ GetDownstreamTasks(GraphIds)

SpecJson == Init /\ [][NextJson]_vars

(***************************************************************************)
(* The CLI (src/speculate/cli.py).  A command loads the graph from the     *)
(* file, works on that graph object and saves it; sys.exit(1) and an       *)
(* exception that nothing catches both end the command with exit code 1    *)
(* before the graph is saved.  The argument of add is                      *)
(* [is_json, data]: whether json.loads accepts the text, and the value it  *)
(* returns.                                                                *)
(***************************************************************************)
\* load_graph(): the graph of the file, an empty TaskGraph() without a file
load_graph ==
    IF file = None THEN [raised |-> "None", nodes |-> <<>>, edges |-> <<>>]
    ELSE from_json_graph(file[1])

\* the validation of one entry of tasks_to_add: the error printed, or "None"
task_error(graph_nodes, task_data) ==
    IF "id" \notin DOMAIN task_data THEN "Each task must have an 'id' field"
    ELSE IF ~validate_task_id(task_data.id).is_valid
    THEN validate_task_id(task_data.id).error
    ELSE IF task_data.id \in Keys(graph_nodes) THEN "Task ID already exists"
    ELSE "None"

\* the validation of one entry of relationships_to_add
relationship_error(all_task_ids, rel) ==
    IF {"from", "to", "type"} \ DOMAIN rel # {}
    THEN "Each relationship must have 'from', 'to', and 'type' fields"
    ELSE IF rel.from \notin all_task_ids \/ rel.to \notin all_task_ids
    THEN "Relationship references non-existent task"
    ELSE IF RelationTypeOf(rel.type) = "ValueError"
    THEN "Invalid relationship type"
    ELSE "None"

\* the first error of a validation loop, "None" when it ends without one
first_error(errors) ==
    IF \A i \in 1..Len(errors) : errors[i] = "None" THEN "None"
    ELSE errors[CHOOSE i \in 1..Len(errors) :
                    /\ errors[i] # "None"
                    /\ \A j \in 1..(i - 1) : errors[j] = "None"]

\* the loop "# Add tasks" from entry i on
RECURSIVE add_tasks(_, _, _)
add_tasks(graph_nodes, tasks_to_add, i) ==
    IF i > Len(tasks_to_add) THEN [raised |-> "None", nodes |-> graph_nodes]
    ELSE LET made == Task_from_dict(tasks_to_add[i])
             added == add_task_to(graph_nodes, made.task)
         IN IF made.raised # "None"
            THEN [raised |-> made.raised, nodes |-> graph_nodes]
            ELSE IF added.raised # "None" THEN added
            ELSE add_tasks(added.nodes, tasks_to_add, i + 1)

\* the loop "# Add relationships" from entry i on
RECURSIVE add_relationships(_, _, _, _)
add_relationships(graph_nodes, graph_edges, relationships_to_add, i) ==
    IF i > Len(relationships_to_add)
    THEN [raised |-> "None", edges |-> graph_edges]
    ELSE LET rel == relationships_to_add[i]
             added == add_relationship_to(graph_nodes, graph_edges, rel.from, rel.to,
                                          RelationTypeOf(rel.type))
         IN IF added.raised # "None" THEN added
            ELSE add_relationships(graph_nodes, added.edges,
                                   relationships_to_add, i + 1)

\* the two loops run the other way round: relationships, then tasks
add_to_graph_relationships_first(graph, tasks_to_add, relationships_to_add) ==
    LET with_edges == add_relationships(graph.nodes, graph.edges,
                                        relationships_to_add, 1)
        with_tasks == add_tasks(graph.nodes, tasks_to_add, 1)
    IN IF with_edges.raised # "None"
       THEN [raised |-> with_edges.raised, nodes |-> graph.nodes,
             edges |-> graph.edges]
       ELSE [raised |-> with_tasks.raised, nodes |-> with_tasks.nodes,
             edges |-> with_edges.edges]

\* "# Add tasks" then "# Add relationships" on the loaded graph
add_to_graph(graph, tasks_to_add, relationships_to_add) ==
    LET with_tasks == add_tasks(graph.nodes, tasks_to_add, 1)
        with_edges == add_relationships(with_tasks.nodes, graph.edges,
                                        relationships_to_add, 1)
    IN IF with_tasks.raised # "None"
       THEN [raised |-> with_tasks.raised, nodes |-> graph.nodes,
             edges |-> graph.edges]
       ELSE [raised |-> with_edges.raised, nodes |-> with_tasks.nodes,
             edges |-> with_edges.edges]

\* the end of a command: its record, and the file it leaves
Command(call, new_file) ==
    /\ file' = new_file
    /\ pre_file' = file
    /\ last' = call
    /\ UNCHANGED <<nodes, edges, pre_nodes, pre_edges, arg, ret, fs, procs>>

\* a command that ends with exit code 1 before saving
Fails(op, payload, error) ==
    Command([Call(op, error) EXCEPT !.payload = payload, !.exit_code = 1], file)

\* save_graph(graph), then the end of the command with exit code 0
Saves(op, payload, graph) ==
    Command([Call(op, "None") EXCEPT !.payload = payload, !.exit_code = 0],
            <<to_json(graph.nodes, graph.edges)>>)

\* speculate add JSON_PAYLOAD
add(json_payload) ==
    LET data == json_payload.data
        graph == load_graph
        tasks_to_add == get(data, "tasks", <<>>)
        relationships_to_add == get(data, "relationships", <<>>)
        task_errors == [i \in 1..Len(tasks_to_add) |->
                            task_error(graph.nodes, tasks_to_add[i])]
        all_task_ids == Keys(graph.nodes)
                        \cup {tasks_to_add[i].id : i \in 1..Len(tasks_to_add)}
        relationship_errors == [i \in 1..Len(relationships_to_add) |->
                                    relationship_error(all_task_ids,
                                                       relationships_to_add[i])]
        added == add_to_graph(graph, tasks_to_add, relationships_to_add)
    IN IF ~json_payload.is_json THEN Fails("add", json_payload, "Invalid JSON")
       ELSE IF graph.raised # "None" THEN Fails("add", json_payload, graph.raised)
       ELSE IF {"tasks", "relationships"} \cap DOMAIN data = {}
       THEN Fails("add", json_payload,
                  "JSON must contain 'tasks' and/or 'relationships'")
       ELSE IF first_error(task_errors) # "None"
       THEN Fails("add", json_payload, first_error(task_errors))
       ELSE IF first_error(relationship_errors) # "None"
       THEN Fails("add", json_payload, first_error(relationship_errors))
       ELSE IF added.raised # "None" THEN Fails("add", json_payload, added.raised)
       ELSE Saves("add", json_payload, added)

\* the body of start and complete: graph.update_task(task_id, status=member)
\* between the lookup and save_graph
set_status(op, task_id, member) ==
    LET graph == load_graph
        updated == update_task_to(graph.nodes, task_id,
                                  <<Kw("status", member, FALSE)>>)
    IN IF graph.raised # "None" THEN Fails(op, task_id, graph.raised)
       ELSE IF task_id \notin Keys(graph.nodes)
       THEN Fails(op, task_id, "Task not found")
       ELSE IF updated.raised # "None" THEN Fails(op, task_id, updated.raised)
       ELSE Saves(op, task_id, [graph EXCEPT !.nodes = updated.nodes])

\* start refusing a task that is blocked
start_unless_blocked(task_id) ==
    LET graph == load_graph
    IN IF /\ graph.raised = "None"
          /\ task_id \in Keys(graph.nodes)
          /\ is_blocked(graph.nodes, graph.edges, task_id).value
       THEN Fails("start", task_id, "Task is blocked")
       ELSE set_status("start", task_id, "IN_PROGRESS")

\* speculate start TASK_ID
start(task_id) == set_status("start", task_id, "IN_PROGRESS")

\* speculate complete TASK_ID
complete(task_id) == set_status("complete", task_id, "DONE")

\* the issues validate collects, as the set of their kinds
issues(graph) ==
    {"cycles" : x \in {1 : y \in Range(detect_cycles(graph.nodes, graph.edges).value)}}
    \cup {"orphans" : x \in Range(find_orphans(graph.nodes, graph.edges))}
    \cup {"invalid_ids" : x \in {k \in Keys(graph.nodes) :
                                     ~validate_task_id(k).is_valid}}
    \cup {"broken_rels" : x \in {i \in 1..Len(graph.edges) :
                                     \/ graph.edges[i].from_task \notin Keys(graph.nodes)
                                     \/ graph.edges[i].to_task \notin Keys(graph.nodes)}}

\* speculate validate; it saves nothing
validate ==
    LET graph == load_graph
        call(code) == [Call("validate", "None") EXCEPT !.exit_code = code]
    IN IF graph.raised # "None" THEN Fails("validate", <<>>, graph.raised)
       ELSE IF detect_cycles(graph.nodes, graph.edges).raised # "None"
       THEN Fails("validate", <<>>, "ValueError")
       ELSE IF issues(graph) # {}
       THEN Command([call(1) EXCEPT !.returned = issues(graph)], file)
       ELSE Command(call(0), file)

Start(ids) == \E task_id \in ids : start(task_id)

Complete(ids) == \E task_id \in ids : complete(task_id)

\* the command over its arguments; the file holds at most MaxEdges edges
Add(payloads) ==
    \E json_payload \in payloads :
        /\ add(json_payload)
        /\ file' # None => Len(file'[1].edges) <= MaxEdges

(***************************************************************************)
(* SpecCli: the add, start, complete and validate commands on the graph    *)
(* file, from no file on.  The payloads name the two tasks of the graph    *)
(* and one with a newline after its id; among them are ones with an id     *)
(* twice, an invalid id, no id, a bad status, a relationship twice, a bad  *)
(* or missing relationship type, neither key, and text that is no JSON.    *)
(***************************************************************************)
PayloadTasks ==
    {<<[id |-> IdA]>>,
     <<FullData(IdB)>>,
     <<[id |-> IdA], FullData(IdB)>>,
     <<FullData(IdB), [id |-> IdA, status |-> "in_progress"]>>,
     <<[id |-> IdA], [id |-> IdA]>>,
     <<[id |-> IdUpper]>>,
     <<[id |-> IdNewline]>>,
     <<[description |-> "d"]>>,
     <<[id |-> IdA, status |-> "bogus"]>>}

PayloadRelationships ==
    {<<DocEdge(IdA, IdB, "blocks")>>,
     <<DocEdge(IdB, IdA, "blocks")>>,
     <<DocEdge(IdA, IdB, "relates_to"), DocEdge(IdA, IdA, "part_of")>>,
     <<DocEdge(IdA, IdB, "blocks"), DocEdge(IdA, IdB, "blocks")>>,
     <<DocEdge(IdNewline, IdNewline, "part_of")>>,
     <<DocEdge(IdA, IdB, "bogus")>>,
     <<[from |-> IdA, to |-> IdB]>>}

\* payloads with tasks and relationships: a relationship between the tasks
\* it comes with, to a task it does not come with, on a task with an
\* invalid id, of a bad type, and after an id given twice
PayloadBoth ==
    {<<<<[id |-> IdA], FullData(IdB)>>, <<DocEdge(IdA, IdB, "blocks")>>>>,
     <<<<FullData(IdB), [id |-> IdA, status |-> "in_progress"]>>,
       <<DocEdge(IdB, IdA, "blocks")>>>>,
     <<<<[id |-> IdA]>>,
       <<DocEdge(IdA, IdB, "relates_to"), DocEdge(IdA, IdA, "part_of")>>>>,
     <<<<FullData(IdB)>>, <<DocEdge(IdA, IdB, "blocks")>>>>,
     <<<<[id |-> IdNewline]>>, <<DocEdge(IdNewline, IdNewline, "part_of")>>>>,
     <<<<[id |-> IdUpper]>>, <<DocEdge(IdUpper, IdUpper, "blocks")>>>>,
     <<<<[id |-> IdA], FullData(IdB)>>, <<DocEdge(IdA, IdB, "bogus")>>>>,
     <<<<[id |-> IdA], [id |-> IdA]>>, <<DocEdge(IdA, IdA, "blocks")>>>>}

Payloads ==
    {[is_json |-> TRUE, data |-> [tasks |-> t]] : t \in PayloadTasks}
    \cup {[is_json |-> TRUE, data |-> [relationships |-> r]] :
              r \in PayloadRelationships}
    \cup {[is_json |-> TRUE, data |-> [tasks |-> c[1], relationships |-> c[2]]] :
              c \in PayloadBoth}
    \cup {[is_json |-> TRUE, data |-> [tasks |-> <<>>]],
          [is_json |-> TRUE, data |-> [note |-> "n"]],
          [is_json |-> FALSE, data |-> [note |-> "n"]]}

NextCli ==
    \/ Add(Payloads)
    \/ Start(GraphIds)
    \/ Complete(GraphIds)
    \/ validate

SpecCli == Init /\ [][NextCli]_vars

(***************************************************************************)
(* SpecRepeats: detect_cycles on every graph of three tasks, inserted in   *)
(* any order, with none to most blocks relationships between any           *)
(* of them, added in any order: the stores add_task and add_relationship   *)
(* build, where a cycle can be reached along several paths.                *)
(***************************************************************************)
MaxBlocksEdges == 4

RepeatStores(most) ==
    {[nodes |-> [i \in 1..Len(ids) |-> [key |-> ids[i], task |-> Task(ids[i])]],
      edges |-> es] :
         ids \in {order \in DistinctSeqs(CycleIds, Cardinality(CycleIds)) :
                      Range(order) = CycleIds},
         es \in DistinctSeqs({Relationship(from_id, to_id, "BLOCKS") :
                                  from_id \in CycleIds, to_id \in CycleIds},
                             most)}

InitRepeats ==
    /\ \E store \in RepeatStores(MaxBlocksEdges) :
           /\ nodes = store.nodes
           /\ edges = store.edges
    /\ pre_nodes = nodes
    /\ pre_edges = edges
    /\ last = NoCall
    /\ arg = <<>>
    /\ ret = <<>>
    /\ file = None
    /\ pre_file = None
    /\ fs = NoFiles
    /\ procs = [p \in Processes |-> NoProcess]

NextRepeats == DetectCycles

SpecRepeats == InitRepeats /\ [][NextRepeats]_vars

(***************************************************************************)
(* SpecKeys: a graph of two tasks under all five mutating operations,      *)
(* where update_task is given every keyword that names an attribute of a   *)
(* task, id among them.                                                    *)
(***************************************************************************)
IdUpdates == {<<Kw("id", IdB, TRUE)>>}

DoneUpdates == {<<Kw("status", "done", TRUE)>>}

NextKeys ==
    \/ AddTask({Task(IdA), Task(IdB)})
    \/ UpdateTask(GraphIds, IdUpdates)
    \/ UpdateTask(GraphIds, DoneUpdates)
    \/ DeleteTask(GraphIds)
    \/ AddRelationship(GraphIds, {"BLOCKS", "PART_OF"})
    \/ DeleteRelationship(GraphIds, {"BLOCKS", "None"})

SpecKeys == Init /\ [][NextKeys]_vars

(***************************************************************************)
(* SpecSave: one process saving the graph file again and again while a     *)
(* reader loads it again and again.                                        *)
(* SpecWriters: two processes, each loading the graph file and saving it,  *)
(* at the same time.                                                       *)
(***************************************************************************)
NextSave == Commands({Reader, 1})

SpecSave == Init /\ [][NextSave]_vars

NextWriters == Commands({1, 2})

SpecWriters == Init /\ [][NextWriters]_vars

(***************************************************************************)
(* validate_task_id applied to one string.                                 *)
(***************************************************************************)
\* a lowercase letter, a digit, the hyphen, an uppercase letter, the space,
\* the newline and the underscore
Alphabet == {97, 48, HYPHEN, 65, SPACE, LF, 95}

Strings == SeqsUpTo(Alphabet, MaxLen) \cup SeqsUpTo({97, HYPHEN}, MaxKebabLen)

InitValidate ==
    /\ arg \in Strings
    /\ ret = <<>>
    /\ file = None
    /\ pre_file = None
    /\ fs = NoFiles
    /\ procs = [p \in Processes |-> NoProcess]
    /\ nodes = <<>>
    /\ edges = <<>>
    /\ last = NoCall
    /\ pre_nodes = <<>>
    /\ pre_edges = <<>>

Validate ==
    /\ ret = <<>>
    /\ ret' = <<validate_task_id(arg)>>
    /\ UNCHANGED <<nodes, edges, last, pre_nodes, pre_edges, arg, file, pre_file,
                    fs, procs>>

NextValidate == Validate

SpecValidate == InitValidate /\ [][NextValidate]_vars

(***************************************************************************)
(* What the claims speak of.                                               *)
(***************************************************************************)
\* The identifier policy in the words of the data model: non-empty, lowercase
\* ASCII letters, digits and hyphens only, at most 4 non-empty segments between
\* hyphens.
IdentifierPolicy(id) ==
    /\ Len(id) > 0
    /\ \A i \in 1..Len(id) : id[i] \in 97..122 \/ id[i] \in 48..57 \/ id[i] = HYPHEN
    /\ id[1] # HYPHEN
    /\ id[Len(id)] # HYPHEN
    /\ \A i \in 1..(Len(id) - 1) : ~(id[i] = HYPHEN /\ id[i + 1] = HYPHEN)
    /\ Cardinality({i \in 1..Len(id) : id[i] = HYPHEN}) <= 3

Raised == last.raised # "None"

StoreUnchanged == nodes = pre_nodes /\ edges = pre_edges

\* every task of d but the one under key k is in e, under its key, unchanged
OthersUnchanged(d, e, k) ==
    \A x \in Keys(d) \ {k} : x \in Keys(e) /\ Get(e, x) = Get(d, x)

Incident(edge, id) == edge.from_task = id \/ edge.to_task = id

\* t is s without the elements at the indices outside keep, order kept
IsRemainder(t, s, keep) ==
    /\ Len(t) = Cardinality(keep)
    /\ \E f \in [1..Len(t) -> keep] :
           /\ \A i \in 1..Len(t), j \in 1..Len(t) : i < j => f[i] < f[j]
           /\ \A i \in 1..Len(t) : t[i] = s[f[i]]

HasEdge(es, from_id, to_id, rel_type) ==
    \E i \in 1..Len(es) : es[i] = Relationship(from_id, to_id, rel_type)

(***************************************************************************)
(* C1.  A failing update_task leaves the store unchanged: after a call of  *)
(* update_task that raised (absent id, or a status string that is no       *)
(* TaskStatus value, with other keywords before or after it), nodes and    *)
(* edges are what they were before the call.                               *)
(***************************************************************************)
C1_FailedUpdateLeavesStore ==
    (last.op = "update_task" /\ Raised) => StoreUnchanged

(***************************************************************************)
(* C2.  add_task of a task whose id satisfies the identifier policy and is *)
(* not in the store succeeds; nodes[id] is then the task added, every      *)
(* other task is unchanged and so is the edge sequence.                    *)
(***************************************************************************)
C2_AddThenLookup ==
    (/\ last.op = "add_task"
     /\ IdentifierPolicy(last.task_id)
     /\ last.task_id \notin Keys(pre_nodes))
    => /\ ~Raised
       /\ Keys(nodes) = Keys(pre_nodes) \cup {last.task_id}
       /\ Get(nodes, last.task_id) = last.task
       /\ OthersUnchanged(pre_nodes, nodes, last.task_id)
       /\ edges = pre_edges

\* a full task was added, under a valid id, to a store that holds another
\* task and an edge
C2_Witness ==
    /\ last.op = "add_task"
    /\ IdentifierPolicy(last.task_id)
    /\ last.task_id \notin Keys(pre_nodes)
    /\ last.task.description = "d"
    /\ pre_nodes # <<>>
    /\ pre_edges # <<>>
    /\ ~Raised

(***************************************************************************)
(* C3.  add_task with an id that fails the identifier policy, or with an   *)
(* id already in the store, raises and leaves the store unchanged.  (The   *)
(* keys of nodes are distinct in every state: nodes is a dict.)            *)
(***************************************************************************)
C3_RejectedAddLeavesStore ==
    (/\ last.op = "add_task"
     /\ (~IdentifierPolicy(last.task_id) \/ last.task_id \in Keys(pre_nodes)))
    => (Raised /\ StoreUnchanged)

(***************************************************************************)
(* C4.  validate_task_id accepts a string if and only if the string        *)
(* satisfies the identifier policy.                                        *)
(***************************************************************************)
C4_ValidIffPolicy ==
    ret # <<>> => (ret[1].is_valid <=> IdentifierPolicy(arg))

(***************************************************************************)
(* C5.  A successful update_task changes only the supplied fields of the   *)
(* task: its other fields, every other task, the task ids (and their       *)
(* order) and the edge sequence are unchanged.                             *)
(***************************************************************************)
Supplied(updates) == {updates[i].key : i \in 1..Len(updates)}

C5_UpdateFrame ==
    (last.op = "update_task" /\ ~Raised)
    => /\ KeyOrder(nodes) = KeyOrder(pre_nodes)
       /\ OthersUnchanged(pre_nodes, nodes, last.task_id)
       /\ \A f \in TaskFields \ Supplied(last.updates) :
              Get(nodes, last.task_id)[f] = Get(pre_nodes, last.task_id)[f]
       /\ edges = pre_edges

\* the status alone was updated, on a task whose other fields are all set,
\* in a store with another task and an edge
C5_Witness ==
    /\ last.op = "update_task"
    /\ ~Raised
    /\ Supplied(last.updates) = {"status"}
    /\ Get(pre_nodes, last.task_id) = FullTask(last.task_id)
    /\ Get(nodes, last.task_id).status = "DONE"
    /\ Len(nodes) = 2
    /\ edges # <<>>

(***************************************************************************)
(* C6.  Status transitions are not restricted: update_task of an existing  *)
(* task with status "pending", "in_progress" or "done" succeeds whatever   *)
(* the task's status is, and the task's status is then the supplied one.   *)
(***************************************************************************)
StatusNamed(value) ==
    [pending |-> "PENDING", in_progress |-> "IN_PROGRESS", done |-> "DONE"][value]

C6_AnyStatusTransition ==
    \A v \in {"pending", "in_progress", "done"} :
        (/\ last.op = "update_task"
         /\ last.updates = <<Kw("status", v, TRUE)>>
         /\ last.task_id \in Keys(pre_nodes))
        => (~Raised /\ Get(nodes, last.task_id).status = StatusNamed(v))

\* a done task was set back to pending
C6_Witness ==
    /\ last.op = "update_task"
    /\ last.updates = <<Kw("status", "pending", TRUE)>>
    /\ last.task_id \in Keys(pre_nodes)
    /\ Get(pre_nodes, last.task_id).status = "DONE"
    /\ Get(nodes, last.task_id).status = "PENDING"

(***************************************************************************)
(* C7.  delete_task(id) of a present id removes the task and every edge    *)
(* with id as source or target, of any type; the other tasks are unchanged *)
(* and the remaining edges are the prior edges not incident to id, in      *)
(* their prior order.                                                      *)
(***************************************************************************)
C7_DeleteCascades ==
    (last.op = "delete_task" /\ last.task_id \in Keys(pre_nodes))
    => /\ ~Raised
       /\ Keys(nodes) = Keys(pre_nodes) \ {last.task_id}
       /\ OthersUnchanged(pre_nodes, nodes, last.task_id)
       /\ IsRemainder(KeyOrder(nodes), KeyOrder(pre_nodes),
                      {i \in 1..Len(pre_nodes) : pre_nodes[i].key # last.task_id})
       /\ IsRemainder(edges, pre_edges,
                      {i \in 1..Len(pre_edges) :
                           ~Incident(pre_edges[i], last.task_id)})

\* a task was deleted that was the target only of an edge that is not a
\* blocks edge, and an edge between other tasks stayed
C7_Witness ==
    /\ last.op = "delete_task"
    /\ last.task_id \in Keys(pre_nodes)
    /\ \E i \in 1..Len(pre_edges) :
           /\ pre_edges[i].to_task = last.task_id
           /\ pre_edges[i].from_task # last.task_id
           /\ pre_edges[i].relation_type # "BLOCKS"
    /\ Len(edges) = 1
    /\ Len(nodes) = 1

(***************************************************************************)
(* C8.  delete_task(id) of an id that is not in the store is a no-op: it   *)
(* does not raise and leaves nodes and edges unchanged, also on a store    *)
(* obtained by from_json.                                                  *)
(***************************************************************************)
C8_DeleteAbsentIsNoOp ==
    (last.op = "delete_task" /\ last.task_id \notin Keys(pre_nodes))
    => (~Raised /\ StoreUnchanged)

(***************************************************************************)
(* C9.  add_relationship(from, to, type) raises when from or to is not a   *)
(* task of the store, and then nodes and edges are unchanged.              *)
(***************************************************************************)
C9_MissingEndpointRejected ==
    (/\ last.op = "add_relationship"
     /\ (last.from_id \notin Keys(pre_nodes) \/ last.to_id \notin Keys(pre_nodes)))
    => (Raised /\ StoreUnchanged)

\* the source was a task, the target was not, and the store held an edge
C9_Witness ==
    /\ last.op = "add_relationship"
    /\ last.from_id \in Keys(pre_nodes)
    /\ last.to_id \notin Keys(pre_nodes)
    /\ last.raised = "Target task not found"
    /\ edges # <<>>

(***************************************************************************)
(* C10.  In every store reached from the empty one by the five mutating    *)
(* operations the edge sequence holds at most one edge per (from, to,      *)
(* type); add_relationship between two tasks of the store succeeds, leaves *)
(* the edge sequence unchanged if it holds the triple, and appends the     *)
(* edge otherwise (also when it holds the same pair with another type, or  *)
(* the reversed pair).                                                     *)
(***************************************************************************)
C10_OneEdgePerTriple ==
    /\ \A i \in 1..Len(edges), j \in 1..Len(edges) : edges[i] = edges[j] => i = j
    /\ (/\ last.op = "add_relationship"
        /\ last.from_id \in Keys(pre_nodes)
        /\ last.to_id \in Keys(pre_nodes))
       => /\ ~Raised
          /\ nodes = pre_nodes
          /\ edges = IF HasEdge(pre_edges, last.from_id, last.to_id, last.rel_type)
                     THEN pre_edges
                     ELSE Append(pre_edges, Relationship(last.from_id, last.to_id,
                                                         last.rel_type))

\* a triple was added again to a store that also holds its pair with
\* another type
C10_Witness ==
    /\ last.op = "add_relationship"
    /\ ~Raised
    /\ HasEdge(pre_edges, last.from_id, last.to_id, last.rel_type)
    /\ \E i \in 1..Len(pre_edges) :
           /\ pre_edges[i].from_task = last.from_id
           /\ pre_edges[i].to_task = last.to_id
           /\ pre_edges[i].relation_type # last.rel_type
    /\ edges = pre_edges

(***************************************************************************)
(* C11.  delete_relationship(from, to, type) removes exactly the edges     *)
(* from->to of that type, and with no type every edge from->to; the edges  *)
(* of other pairs (the reversed pair too) and of other types stay, in      *)
(* their prior order, and the tasks are unchanged.                         *)
(***************************************************************************)
\* the edge is one the last delete_relationship call names
Named(edge) ==
    /\ edge.from_task = last.from_id
    /\ edge.to_task = last.to_id
    /\ (last.rel_type = "None" \/ edge.relation_type = last.rel_type)

C11_DeleteRelationshipFrame ==
    last.op = "delete_relationship"
    => /\ ~Raised
       /\ nodes = pre_nodes
       /\ IsRemainder(edges, pre_edges,
                      {i \in 1..Len(pre_edges) : ~Named(pre_edges[i])})

\* a typed call removed an edge and left the edge of the same pair that has
\* another type
C11_Witness ==
    /\ last.op = "delete_relationship"
    /\ last.rel_type # "None"
    /\ Len(pre_edges) = 2
    /\ Len(edges) = 1
    /\ edges[1].from_task = last.from_id
    /\ edges[1].to_task = last.to_id
    /\ edges[1].relation_type # last.rel_type

(***************************************************************************)
(* C12.  As claimed: the value delete_relationship returns is the number   *)
(* of edges present before the call minus the number present after it.     *)
(***************************************************************************)
C12_ReturnsCount ==
    last.op = "delete_relationship"
    => last.returned = <<Len(pre_edges) - Len(edges)>>

(***************************************************************************)
(* C12, amended.  delete_relationship returns None; the number of edges it *)
(* removed is the length of the edge list before the call minus its length *)
(* after, which is the number of edges the call names, and is 0 with the   *)
(* store unchanged when it names none.                                     *)
(***************************************************************************)
C12_CountIsLengthDifference ==
    last.op = "delete_relationship"
    => /\ last.returned = None
       /\ Len(pre_edges) - Len(edges)
              = Cardinality({i \in 1..Len(pre_edges) : Named(pre_edges[i])})
       /\ (\A i \in 1..Len(pre_edges) : ~Named(pre_edges[i])) => StoreUnchanged

\* a call without a type removed two edges
C12_Witness ==
    /\ last.op = "delete_relationship"
    /\ last.rel_type = "None"
    /\ Len(pre_edges) - Len(edges) = 2

(***************************************************************************)
(* C13.  from_json applied to the output of to_json raises nothing and     *)
(* yields the same tasks under the same keys in the same order, with equal *)
(* fields (an absent estimate_hours stays absent), and the same edges in   *)
(* the same order.                                                         *)
(***************************************************************************)
C13_RoundTrip ==
    last.op = "to_json"
    => from_json_graph(last.returned)
           = [raised |-> "None", nodes |-> nodes, edges |-> edges]

\* to_json was called on two tasks, one in progress and one without an
\* estimate, with two edges of different types
C13_Witness ==
    /\ last.op = "to_json"
    /\ Len(nodes) = 2
    /\ Len(edges) = 2
    /\ edges[1].relation_type # edges[2].relation_type
    /\ \E i \in 1..2 : nodes[i].task.status = "IN_PROGRESS"
    /\ \E i \in 1..2 : nodes[i].task.estimate_hours = None
    /\ \E i \in 1..2 : nodes[i].task.estimate_hours # None

(***************************************************************************)
(* Paths of blocks edges, for the claims about the graph queries.          *)
(***************************************************************************)
\* the (source, target) pairs of the blocks edges
BlocksPairs(es) ==
    {<<es[i].from_task, es[i].to_task>> :
         i \in {j \in 1..Len(es) : es[j].relation_type = "BLOCKS"}}

Endpoints(es) == UNION {{es[i].from_task, es[i].to_task} : i \in 1..Len(es)}

\* a path of one or more blocks edges leads from x to y
BlocksPath(es, x, y) ==
    \E path \in SeqsUpTo(Endpoints(es), Cardinality(Endpoints(es)) + 1) :
        /\ Len(path) >= 2
        /\ path[1] = x
        /\ path[Len(path)] = y
        /\ \A i \in 1..(Len(path) - 1) : <<path[i], path[i + 1]>> \in BlocksPairs(es)

\* a task that is not done is the source of a blocks edge into id
DirectlyBlocked(id) ==
    \E i \in 1..Len(edges) :
        /\ edges[i].to_task = id
        /\ edges[i].relation_type = "BLOCKS"
        /\ Get(nodes, edges[i].from_task).status # "DONE"

(***************************************************************************)
(* C14.  detect_cycles returns a non-empty list exactly when the blocks    *)
(* edges contain a directed cycle, self-loops included, whatever the       *)
(* insertion order of tasks and edges; edges of another type close no      *)
(* cycle.                                                                  *)
(***************************************************************************)
C14_CyclesIffBlocksCycle ==
    last.op = "detect_cycles"
    => /\ ~Raised
       /\ last.returned # <<>> <=> \E x \in Endpoints(edges) : BlocksPath(edges, x, x)

\* a cycle through three tasks was reported, closing back to its start, on
\* a graph whose tasks were inserted in another order than the cycle runs
C14_Witness ==
    /\ last.op = "detect_cycles"
    /\ \E i \in 1..Len(last.returned) :
           LET cycle == last.returned[i]
           IN /\ Len(cycle) = 4
              /\ cycle[1] = cycle[4]
              /\ Cardinality(Range(cycle)) = 3
              /\ cycle[2] # nodes[2].key

(***************************************************************************)
(* C15.  is_blocked(id) is true exactly when some task that is the source  *)
(* of a blocks edge into id has a status other than done, in every state:  *)
(* no incoming blocks edge means not blocked, and relates_to edges do not  *)
(* count.                                                                  *)
(***************************************************************************)
C15_BlockedIffOpenBlocker ==
    last.op = "is_blocked"
    => /\ ~Raised
       /\ last.returned = DirectlyBlocked(last.task_id)

\* is_blocked answered false for a task whose only blocker is done and that
\* has a relates_to edge from a task that is not done
C15_Witness ==
    /\ last.op = "is_blocked"
    /\ last.returned = FALSE
    /\ \E i \in 1..Len(edges), j \in 1..Len(edges) :
           /\ edges[i].to_task = last.task_id
           /\ edges[i].relation_type = "BLOCKS"
           /\ Get(nodes, edges[i].from_task).status = "DONE"
           /\ edges[j].to_task = last.task_id
           /\ edges[j].relation_type = "RELATES_TO"
           /\ Get(nodes, edges[j].from_task).status = "IN_PROGRESS"

(***************************************************************************)
(* C16.  get_available_tasks returns the pending tasks, each once, in      *)
(* insertion order, and no other task; the flag paired with a task is true *)
(* exactly when the task is not blocked.                                   *)
(***************************************************************************)
C16_AvailableArePending ==
    last.op = "get_available_tasks"
    => LET pending == {i \in 1..Len(nodes) : nodes[i].task.status = "PENDING"}
           returned == last.returned
           tasks == [i \in 1..Len(returned) |->
                         [key |-> returned[i].task.id, task |-> returned[i].task]]
       IN /\ ~Raised
          /\ IsRemainder(tasks, nodes, pending)
          /\ \A i \in 1..Len(returned) :
                 returned[i].is_ready = ~DirectlyBlocked(returned[i].task.id)

\* of two tasks one is in progress and left out, the other is pending and
\* returned as not ready
C16_Witness ==
    /\ last.op = "get_available_tasks"
    /\ Len(nodes) = 2
    /\ \E i \in 1..2 : nodes[i].task.status = "IN_PROGRESS"
    /\ Len(last.returned) = 1
    /\ ~last.returned[1].is_ready

(***************************************************************************)
(* C17.  get_downstream_tasks(id) returns, on every graph, cyclic ones     *)
(* included, and returns exactly the ids that a path of one or more blocks *)
(* edges leads to from id: id itself exactly when it lies on a blocks      *)
(* cycle, and nothing that only an edge of another type leads to.          *)
(***************************************************************************)
C17_DownstreamIsReachable ==
    last.op = "get_downstream_tasks"
    => /\ ~Raised
       /\ last.returned
              = {y \in Endpoints(edges) : BlocksPath(edges, last.task_id, y)}

\* the call returned on a cycle through three tasks, its own id among them
C17_Witness ==
    /\ last.op = "get_downstream_tasks"
    /\ last.task_id \in last.returned
    /\ Cardinality(last.returned) = 3
    /\ Len(edges) = 3

(***************************************************************************)
(* C18.  The queries are read-only: after detect_cycles, find_orphans,     *)
(* get_blocking_dependencies, get_blocked_tasks, is_blocked,               *)
(* get_available_tasks, get_downstream_tasks or to_json the tasks (keys,   *)
(* order, fields) and the edge sequence are what they were before.         *)
(***************************************************************************)
QueryOps ==
    {"detect_cycles", "find_orphans", "get_blocking_dependencies",
     "get_blocked_tasks", "is_blocked", "get_available_tasks",
     "get_downstream_tasks", "to_json"}

C18_QueriesReadOnly == last.op \in QueryOps => StoreUnchanged

\* find_orphans reported a task of a graph that has an edge
C18_Witness ==
    /\ last.op = "find_orphans"
    /\ last.returned # <<>>
    /\ edges # <<>>

(***************************************************************************)
(* C19.  On a graph loaded by from_json, a dangling blocks edge among its  *)
(* edges or not, is_blocked, get_blocking_dependencies, get_blocked_tasks, *)
(* get_available_tasks and get_downstream_tasks return a result.           *)
(***************************************************************************)
C19_QueriesComplete ==
    last.op \in {"is_blocked", "get_blocking_dependencies", "get_blocked_tasks",
                 "get_available_tasks", "get_downstream_tasks"}
    => ~Raised

(***************************************************************************)
(* C20.  The add command given a payload of valid new tasks and            *)
(* relationships exits with code 0 and leaves a file whose graph holds     *)
(* every task and every relationship of the payload; a relationship may    *)
(* name a task that the same payload creates, the tasks being inserted     *)
(* before the relationships.                                               *)
(***************************************************************************)
\* the graph of a file
Stored(f) ==
    IF f = None THEN [raised |-> "None", nodes |-> <<>>, edges |-> <<>>]
    ELSE from_json_graph(f[1])

\* the data of a payload hold valid new tasks and relationships for the
\* graph whose keys are known
ValidPayload(data, known) ==
    LET tasks == get(data, "tasks", <<>>)
        relationships == get(data, "relationships", <<>>)
        ids == {tasks[i].id : i \in {j \in 1..Len(tasks) : "id" \in DOMAIN tasks[j]}}
    IN /\ {"tasks", "relationships"} \cap DOMAIN data # {}
       /\ \A i \in 1..Len(tasks) :
              /\ "id" \in DOMAIN tasks[i]
              /\ IdentifierPolicy(tasks[i].id)
              /\ tasks[i].id \notin known
              /\ \A j \in 1..Len(tasks) : i # j => tasks[i].id # tasks[j].id
              /\ get(tasks[i], "status", "pending")
                     \in {"pending", "in_progress", "done"}
       /\ \A i \in 1..Len(relationships) :
              /\ {"from", "to", "type"} \subseteq DOMAIN relationships[i]
              /\ relationships[i].from \in known \cup ids
              /\ relationships[i].to \in known \cup ids
              /\ relationships[i].type \in {"blocks", "relates_to", "part_of"}

C20_ValidAddPersists ==
    (/\ last.op = "add"
     /\ last.payload.is_json
     /\ ValidPayload(last.payload.data, Keys(Stored(pre_file).nodes)))
    => LET tasks == get(last.payload.data, "tasks", <<>>)
           relationships == get(last.payload.data, "relationships", <<>>)
           graph == Stored(file)
       IN /\ last.exit_code = 0
          /\ file # None
          /\ graph.raised = "None"
          /\ \A i \in 1..Len(tasks) :
                 /\ tasks[i].id \in Keys(graph.nodes)
                 /\ Get(graph.nodes, tasks[i].id) = Task_from_dict(tasks[i]).task
          /\ \A i \in 1..Len(relationships) :
                 HasEdge(graph.edges, relationships[i].from, relationships[i].to,
                         RelationTypeOf(relationships[i].type))

\* a payload created two tasks and a relationship between them on a file
\* that held neither
C20_Witness ==
    /\ last.op = "add"
    /\ last.exit_code = 0
    /\ Stored(pre_file).nodes = <<>>
    /\ Len(Stored(file).nodes) = 2
    /\ \E i \in 1..Len(Stored(file).edges) :
           Stored(file).edges[i].from_task # Stored(file).edges[i].to_task

(***************************************************************************)
(* C21.  The add command is all-or-nothing: when a task of the payload has *)
(* an id failing the identifier policy, an id already in the graph or an   *)
(* id the payload holds twice, or a relationship names a missing task or   *)
(* has an invalid type, the command exits with code 1 and the file is as   *)
(* it was (absent if it was absent).                                       *)
(***************************************************************************)
\* the data of a payload hold one of the faults above, for the graph whose
\* keys are known
FaultyPayload(data, known) ==
    LET tasks == get(data, "tasks", <<>>)
        relationships == get(data, "relationships", <<>>)
        with_id == {i \in 1..Len(tasks) : "id" \in DOMAIN tasks[i]}
        ids == {tasks[i].id : i \in with_id}
    IN \/ \E i \in with_id :
              \/ ~IdentifierPolicy(tasks[i].id)
              \/ tasks[i].id \in known
              \/ \E j \in with_id : i # j /\ tasks[i].id = tasks[j].id
       \/ \E i \in 1..Len(relationships) :
              /\ {"from", "to", "type"} \subseteq DOMAIN relationships[i]
              /\ \/ relationships[i].from \notin known \cup ids
                 \/ relationships[i].to \notin known \cup ids
                 \/ relationships[i].type \notin {"blocks", "relates_to", "part_of"}

C21_FaultyAddLeavesFile ==
    (/\ last.op = "add"
     /\ last.payload.is_json
     /\ FaultyPayload(last.payload.data, Keys(Stored(pre_file).nodes)))
    => /\ last.exit_code = 1
       /\ file = pre_file

(***************************************************************************)
(* C22.  start and complete on the id of a task of the graph exit with     *)
(* code 0 and leave a file in which that task's status is in_progress,     *)
(* respectively done, whatever it was and whether or not the task is       *)
(* blocked, with every other field, every other task and the edges as      *)
(* before; on an id that is no task they exit with code 1 and the file is  *)
(* as it was.                                                              *)
(***************************************************************************)
C22_StatusShortcuts ==
    last.op \in {"start", "complete"}
    => LET was == Stored(pre_file)
           now == Stored(file)
           id == last.payload
       IN IF id \in Keys(was.nodes)
          THEN /\ last.exit_code = 0
               /\ Get(now.nodes, id).status
                      = (IF last.op = "start" THEN "IN_PROGRESS" ELSE "DONE")
               /\ \A f \in TaskFields \ {"status"} :
                      Get(now.nodes, id)[f] = Get(was.nodes, id)[f]
               /\ KeyOrder(now.nodes) = KeyOrder(was.nodes)
               /\ OthersUnchanged(was.nodes, now.nodes, id)
               /\ now.edges = was.edges
          ELSE /\ last.exit_code = 1
               /\ file = pre_file

\* complete marked a pending task done while a task blocking it was not
C22_Witness ==
    /\ last.op = "complete"
    /\ last.exit_code = 0
    /\ Get(Stored(pre_file).nodes, last.payload).status = "PENDING"
    /\ is_blocked(Stored(file).nodes, Stored(file).edges, last.payload).value
    /\ Len(Stored(file).nodes) = 2

(***************************************************************************)
(* C23.  validate exits with code 0 exactly when the graph of the file has *)
(* no blocks cycle, no task without a relationship, no key failing the     *)
(* identifier policy and no edge with an endpoint that is no task; it      *)
(* leaves the file as it was.                                              *)
(***************************************************************************)
Healthy(graph) ==
    /\ \A x \in Endpoints(graph.edges) : ~BlocksPath(graph.edges, x, x)
    /\ Keys(graph.nodes) \subseteq Endpoints(graph.edges)
    /\ \A k \in Keys(graph.nodes) : IdentifierPolicy(k)
    /\ Endpoints(graph.edges) \subseteq Keys(graph.nodes)

C23_ValidateIffHealthy ==
    last.op = "validate"
    => /\ last.exit_code = 0 <=> Healthy(Stored(file))
       /\ file = pre_file

(***************************************************************************)
(* C24.  With one writer, a reader that loads the graph file while the     *)
(* writer saves reads one whole document, the one the graph file held when *)
(* the reader opened it (the previous one, or the new one once it was      *)
(* renamed), never a partly written one; and the graph file, once it       *)
(* exists, holds one whole document at every moment.                       *)
(***************************************************************************)
C24_ReaderSeesWholeDocument ==
    /\ fs.graph # 0 => WholeDocument(fs.inodes[fs.graph])
    /\ procs[Reader].pc # "failed"
    /\ procs[Reader].seen # None => WholeDocument(procs[Reader].seen[1])
    /\ procs[Reader].pc = "loaded" => procs[Reader].seen = procs[Reader].at_open

\* the reader read the whole first document while the second was partly
\* written to the temporary file
C24_Witness ==
    /\ procs[Reader].pc = "loaded"
    /\ procs[Reader].seen # None
    /\ procs[Reader].seen[1][1].version = 1
    /\ procs[1].pc = "writing"
    /\ procs[1].version = 2
    /\ procs[1].offset = 1

(***************************************************************************)
(* C28.  With two writers at the same time, the graph file, once it        *)
(* exists, holds at every moment one whole document written by one of      *)
(* them, and no load or save of either fails.                              *)
(***************************************************************************)
C28_LastWriterWins ==
    /\ fs.graph # 0 => WholeDocument(fs.inodes[fs.graph])
    /\ \A p \in {1, 2} : procs[p].pc # "failed"

(***************************************************************************)
(* C25.  In every store the five mutating operations reach from the empty  *)
(* store, both endpoints of every edge are keys of nodes: no edge dangles. *)
(***************************************************************************)
C25_NoDanglingEdge ==
    \A i \in 1..Len(edges) :
        /\ edges[i].from_task \in Keys(nodes)
        /\ edges[i].to_task \in Keys(nodes)

\* delete_task removed a task with incident edges and an edge between the
\* tasks that remain is still there
C25_Witness ==
    /\ last.op = "delete_task"
    /\ last.task_id \in Keys(pre_nodes)
    /\ \E i \in 1..Len(pre_edges) : Incident(pre_edges[i], last.task_id)
    /\ edges # <<>>

(***************************************************************************)
(* C29.  In every store the five mutating operations reach from the empty  *)
(* store, each task is stored under its own id: update_task never changes  *)
(* the id of a task.                                                       *)
(***************************************************************************)
C29_StoredUnderOwnId ==
    \A i \in 1..Len(nodes) : nodes[i].task.id = nodes[i].key

(***************************************************************************)
(* C26.  Every cycle detect_cycles returns is a closed path of blocks      *)
(* edges: its first and last elements are the same task id, every          *)
(* consecutive pair of it is a blocks edge of the store, and the elements  *)
(* before the last are pairwise distinct.                                  *)
(***************************************************************************)
ClosedBlocksPath(es, cycle) ==
    /\ Len(cycle) >= 2
    /\ cycle[1] = cycle[Len(cycle)]
    /\ \A i \in 1..(Len(cycle) - 1) : <<cycle[i], cycle[i + 1]>> \in BlocksPairs(es)
    /\ \A i, j \in 1..(Len(cycle) - 1) : cycle[i] = cycle[j] => i = j

C26_CyclesAreClosedPaths ==
    last.op = "detect_cycles"
    => \A i \in 1..Len(last.returned) : ClosedBlocksPath(edges, last.returned[i])

\* a cycle through two tasks was reported that the search entered from the
\* first task of the store, which blocks it and is not on it
C26_Witness ==
    /\ last.op = "detect_cycles"
    /\ \E i \in 1..Len(last.returned) :
           LET cycle == last.returned[i]
           IN /\ Len(cycle) = 3
              /\ nodes[1].key \notin Range(cycle)
              /\ <<nodes[1].key, cycle[1]>> \in BlocksPairs(edges)

(***************************************************************************)
(* C27.  As stated: there is a store built with add_task and               *)
(* add_relationship, the current one or another, on which the list         *)
(* detect_cycles returns holds the same cycle more than once.              *)
(***************************************************************************)
Repeats(cycles) == \E i, j \in 1..Len(cycles) : i # j /\ cycles[i] = cycles[j]

C27_SameCycleTwice ==
    \E store \in RepeatStores(MaxBlocksEdges)
                  \cup {[nodes |-> nodes, edges |-> edges]} :
        Repeats(detect_cycles(store.nodes, store.edges).value)

(***************************************************************************)
(* C27, amended.  On a store built with add_task and add_relationship the  *)
(* list detect_cycles returns holds no cycle more than once, neither as    *)
(* the same list nor as the same cycle started at another of its tasks:    *)
(* a task is entered once, so a cycle that several paths reach is reported *)
(* on the first of them only.                                              *)
(***************************************************************************)
\* the cycle started at its k-th task
Rotated(cycle, k) ==
    LET body == SubSeq(cycle, 1, Len(cycle) - 1)
    IN SubSeq(body, k, Len(body)) \o SubSeq(body, 1, k - 1) \o <<body[k]>>

SameCycle(c, d) ==
    /\ Len(c) = Len(d)
    /\ \E k \in 1..(Len(c) - 1) : Rotated(c, k) = d

C27_EachCycleOnce ==
    last.op = "detect_cycles"
    => \A i, j \in 1..Len(last.returned) :
           SameCycle(last.returned[i], last.returned[j]) => i = j

\* one cycle was reported on a store where two paths lead from a task to
\* the cycle, one of them through a third task
C27_Witness ==
    /\ last.op = "detect_cycles"
    /\ Len(last.returned) = 1
    /\ \E r, x \in CycleIds :
           LET cycle == last.returned[1]
           IN /\ r \notin Range(cycle)
              /\ x \notin Range(cycle)
              /\ r # x
              /\ <<r, x>> \in BlocksPairs(edges)
              /\ <<x, cycle[1]>> \in BlocksPairs(edges)
              /\ <<r, cycle[1]>> \in BlocksPairs(edges)

(***************************************************************************)
(* C30.  detect_cycles and get_downstream_tasks agree: detect_cycles       *)
(* returns a non-empty list exactly when some task id is in                *)
(* get_downstream_tasks(id), and every task of a reported cycle is in its  *)
(* own downstream set.                                                     *)
(***************************************************************************)
OwnDownstream(id) == id \in get_downstream_tasks(edges, id).value

====
